---- MODULE Spec2Model ----
(***************************************************************************)
(* Discord voice client core: the threaded voice handler                   *)
(* (ThreadedWebRTCVoiceHandler), its encoding worker, the egress pacer,    *)
(* the per-speaker audio buffer (AudioBufferManager), the standalone       *)
(* EncryptedAudioEncoder and the packet crypto of the encode and decode    *)
(* workers.                                                                *)
(***************************************************************************)
EXTENDS Integers, Sequences, FiniteSets, TLC

----------------------------------------------------------------------------
(* Bounds of the model *)

\* PlayAudio calls issued during one session
MaxCalls == 2
\* 20 ms frames in the longest PCM input of one PlayAudio call
MaxFrames == 2
\* PCM chunks received during one session
MaxChunks == 4
\* op 4 (Session Description) messages the voice server sends in one session
MaxSessionDescriptions == 2
\* packets asked of one EncryptedAudioEncoder
MaxEncFrames == 65537
\* joinVoiceChannel / leaveVoiceChannel calls made on the client
MaxClientCalls == 2
\* datagrams delivered to the udp 'message' listener
MaxDatagrams == 1
\* forceFlushAll() calls made on the buffer manager
MaxForceFlushes == 2
\* addTranscription and clear calls made on the transcript store
MaxStoreCalls == 2
\* voice heartbeats sent after one Hello
MaxHeartbeats == 3
\* datagrams the receive loop of an established session takes
MaxLoopDatagrams == 2

----------------------------------------------------------------------------
(* Program constants *)

\* bytes of one 20 ms frame: 960 samples * 2 channels * 2 bytes
FrameSize == 3840
\* samples per frame, the timestamp step
SamplesPerFrame == 960
\* writeUInt16BE accepts 0 .. 65535
U16Limit == 65536
\* frames played before the send sequence stands at 0xFFFF
FramesPlayed == U16Limit - 1

NoKey == 0
Keys == {1, 2}
OurSsrc == 5
LiteMode == "xsalsa20_poly1305_lite"
PlainMode == "plain"
\* the mode lists a voice server can offer in op 2
ModeOffers == {{LiteMode}, {"aead_xchacha20_poly1305_rtpsize"}}

\* AudioBufferManager(2000, 10000): silence timeout and largest buffer, ms
BufferTimeoutMs == 2000
MaxBufferSizeMs == 10000
\* 48 kHz * 2 channels * 2 bytes
BytesPerSecond == 192000
\* speaker ids the udp handler passes to addAudioChunk
UserIds == {"u1", "u2"}
\* PCM lengths of one chunk: a decoded 20 ms frame, and 5 s of PCM
ChunkLens == {FrameSize, 5 * BytesPerSecond}

CallIds == 1..MaxCalls
\* PCM lengths ffmpeg can deliver: every half frame up to MaxFrames frames
PcmLens == {k * (FrameSize \div 2) : k \in 0..(2 * MaxFrames)}

----------------------------------------------------------------------------
VARIABLES
  webrtcHandler,   \* UserDiscordClient.webrtcHandler: "undefined" | "live"
  voiceWebsocket,  \* handler.voiceWebsocket: "open" | "undefined"
  udpSocket,       \* handler.udpSocket: "undefined" | "open" | "closed"
  ipDiscovery,     \* "idle" | "pending" | "done"
  mode,            \* handler.mode: "unset" | LiteMode | PlainMode
  secretKey,       \* handler.secretKey: NoKey until op 4
  op4Count,        \* op 4 messages handled so far
  encodingWorker,  \* handler.encodingWorker: "alive" | "undefined"
  workerEnc,       \* worker thread state: [init, key, mode]
  workerReady,     \* AudioEncodingWorker.ready
  workerInbox,     \* messages posted to the worker thread, in order
  workerOutbox,    \* messages posted by the worker thread, in order
  pendingFrames,   \* AudioEncodingWorker.pendingFrames: ids with a resolver
  frameIdCounter,  \* AudioEncodingWorker.frameIdCounter
  sequence,        \* handler.sequence
  timestamp,       \* handler.timestamp
  speaking,        \* handler.speaking
  isSending,       \* handler.isSending
  sendQueue,       \* handler.sendQueue
  frameIndex,      \* frameIndex of the running sendNextFrame closure
  pacerTimer,      \* a setTimeout(sendNextFrame) is armed
  pacerFault,      \* a pacer wake-up threw against a missing socket
  calls,           \* the PlayAudio calls
  wire,            \* RTP datagrams handed to the UDP socket, in order
  wireSpeaking,    \* the speaking flag as each of them was handed over
  wsSent,          \* voice ops sent on the voice websocket, in order
  audioBufferManager,   \* handler.audioBufferManager: "alive" | "undefined"
  transcriptionEnabled, \* handler.transcriptionEnabled
  buffers,         \* AudioBufferManager.buffers: user id -> chunks
  timers,          \* user ids whose silence timeout is armed
  emitted,         \* the 'audioReady' events emitted, in order
  chunkCount       \* chunks handed to addAudioChunk so far

\* the voice session's connection state
sessVars == <<webrtcHandler, voiceWebsocket, udpSocket, ipDiscovery, mode,
              secretKey, op4Count>>
\* the encoding worker: the thread and its main-thread proxy
workerVars == <<encodingWorker, workerEnc, workerReady, workerInbox,
                workerOutbox, pendingFrames, frameIdCounter>>
\* the pacer
pacerVars == <<speaking, isSending, sendQueue, frameIndex, pacerTimer,
               pacerFault, wire, wireSpeaking, wsSent>>
\* everything of the send path
sendVars == <<sessVars, workerVars, pacerVars, sequence, timestamp, calls>>

\* the receive side: per-speaker buffering
recvVars == <<audioBufferManager, transcriptionEnabled, buffers, timers,
              emitted, chunkCount>>

VARIABLES
  \* an EncryptedAudioEncoder built for the lite mode
  encSequence,     \* its sequence field
  encTimestamp,    \* its timestamp field
  encCount,        \* packets createAudioPacket has returned
  encFirstNonce,   \* the nonce of the first of them
  encLastNonce,    \* the nonce of the latest of them
  \* one frame taken through the encoding and the decoding worker
  frame,           \* the frame and the 'init' both workers were given
  packet,          \* the RTP packet as the decoding worker will see it
  decoded,         \* what the decrypt stage of the decoding worker gave
  decodedEarlier   \* the same for the earlier decoding worker

encVars == <<encSequence, encTimestamp, encCount, encFirstNonce, encLastNonce>>
boxVars == <<frame, packet, decoded, decodedEarlier>>
codecVars == <<encVars, boxVars>>

VARIABLES
  \* UserDiscordClient: the gateway side of voice and the objects it creates
  gatewayOpen,     \* this.ws is open
  gatewaySent,     \* gateway ops 14 and 4 sent, in order
  pendingDispatch, \* dispatches the gateway owes for the op 4s it was sent
  clientCalls,     \* joinVoiceChannel / leaveVoiceChannel calls that returned
  lastCall,        \* the latest of them and what the client held at its return
  received,        \* dispatch kinds handled since the latest joinVoiceChannel
  voiceStates,     \* this.voiceStates entry of the own user
  voiceSockets,    \* every voice WebSocket created, in order of creation
  clientVoiceWs,   \* this.voiceWebsocket: index in voiceSockets, 0 undefined
  clientHandler,   \* this.webrtcHandler: "undefined" | "live"
  handlerWs,       \* the handler's voiceWebsocket: index, 0 undefined
  udpSockets,      \* every UDP socket created, in order: "open" | "closed"
  handlerUdp,      \* the handler's udpSocket: index in udpSockets, 0 undefined
  voiceHeartbeatInterval  \* the voice heartbeat setInterval is armed

clientVars == <<gatewayOpen, gatewaySent, pendingDispatch, clientCalls,
                lastCall, received, voiceStates, voiceSockets, clientVoiceWs,
                clientHandler, handlerWs, udpSockets, handlerUdp,
                voiceHeartbeatInterval>>
VARIABLES
  decodingWorker,  \* decoding worker thread state: [init, key, mode]
  decInbox,        \* messages posted to the decoding worker, in order
  decInits,        \* decodingWorker.initialize calls made so far
  ssrcUserMap,     \* handler.ssrcUserMap: ssrc -> user id
  datagram,        \* the datagram the udp 'message' listener is handling
  decodeReply,     \* the decoding worker's reply for it
  rxCount,         \* datagrams the listener has taken so far
  lastRx,          \* the latest datagram done with, and what became of it
  chunkSsrc        \* chunk id -> the ssrc read from its datagram

udpVars == <<decodingWorker, decInbox, decInits, ssrcUserMap, datagram,
             decodeReply, rxCount, lastRx, chunkSsrc>>

VARIABLES
  forceFlushes,    \* forceFlushAll() calls made so far
  lastFlush        \* the latest of them: the user ids it called flushBuffer
                   \* with, and those of them whose buffer was empty

flushVars == <<forceFlushes, lastFlush>>

VARIABLES
  transcriptions,  \* TranscriptStore.transcriptions
  userMap,         \* TranscriptStore.userMap: user id -> username
  saves,           \* the save() calls whose writeFile is under way
  saveCount,       \* save() calls made so far
  storeCalls,      \* addTranscription and clear calls made so far
  file             \* the transcript file on disk

storeVars == <<transcriptions, userMap, saves, saveCount, storeCalls, file>>

VARIABLES
  reconnectFor,    \* the gateway opcode whose reconnect() timer is pending
  connectStarted,  \* the last connect() the client started on its own
  heartbeat,       \* voice heartbeats sent and acknowledged since Hello
  lastSpeaking     \* the last voice op 5 the client received

linkVars == <<reconnectFor, connectStarted, heartbeat, lastSpeaking>>

VARIABLES
  selected,        \* what performIPDiscovery sent in Select Protocol
  sessions,        \* SessionManager.sessions: the ids in the map
  closes,          \* session id -> close() calls made on its transport
  callStack,       \* the removeSession calls in progress, innermost last
  now,             \* the wall clock, in ticks
  firstAt,         \* user id -> the time its buffer's first chunk was added
  deadline         \* user id -> the time its silence timeout is due

\* the session manager of the MCP server
mgrVars == <<sessions, closes, callStack>>

\* the clock the buffer manager's timeouts run on
clockVars == <<now, firstAt, deadline>>

sideVars == <<selected, mgrVars, clockVars>>

\* what lies outside the handler's send path, its buffers and the codecs
outerVars == <<clientVars, udpVars, flushVars, storeVars, linkVars, sideVars>>

vars == <<sendVars, recvVars, codecVars, outerVars>>

----------------------------------------------------------------------------
(* Helpers *)

\* Math.ceil(pcmData.length / frameSize)
FrameCount(len) == (len + FrameSize - 1) \div FrameSize

\* zero bytes appended to the frame at index i (0-based) of a PCM of len bytes
PadOf(len, i) ==
  IF (i + 1) * FrameSize > len THEN (i + 1) * FrameSize - len ELSE 0

\* a PlayAudio call: where it stands, its PCM length and frame count, frames
\* encoded so far, the frame id it awaits, its packets, how it failed, and
\* whether it was made before op 4
IdleCall == [pc |-> "idle", n |-> 0, len |-> 0, i |-> 0, fid |-> -1,
             frames |-> <<>>, err |-> "none", early |-> FALSE]

----------------------------------------------------------------------------
InitSend ==
  /\ webrtcHandler = "undefined"
  /\ voiceWebsocket = "undefined"
  /\ udpSocket = "undefined"
  /\ ipDiscovery = "idle"
  /\ mode = "unset"
  /\ secretKey = NoKey
  /\ op4Count = 0
  /\ encodingWorker = "undefined"
  /\ workerEnc = [init |-> FALSE, key |-> NoKey, mode |-> "unset"]
  /\ workerReady = FALSE
  /\ workerInbox = <<>>
  /\ workerOutbox = <<>>
  /\ pendingFrames = {}
  /\ frameIdCounter = 0
  /\ sequence = 0
  /\ timestamp = 0
  /\ speaking = FALSE
  /\ isSending = FALSE
  /\ sendQueue = <<>>
  /\ frameIndex = 0
  /\ pacerTimer = FALSE
  /\ pacerFault = FALSE
  /\ calls = [c \in CallIds |-> IdleCall]
  /\ wire = <<>>
  /\ wireSpeaking = <<>>
  /\ wsSent = <<>>

\* the handler's constructor creates the buffer manager with no buffers
InitRecv ==
  /\ audioBufferManager = "undefined"
  /\ transcriptionEnabled = TRUE
  /\ buffers = << >>
  /\ timers = {}
  /\ emitted = <<>>
  /\ chunkCount = 0



----------------------------------------------------------------------------
(* The encoding worker thread (audioEncodingWorker.ts, worker side) *)

InitMsg(k, m) ==
  [type |-> "init", id |-> -1, seq |-> 0, ts |-> 0, call |-> 0, idx |-> 0,
   pad |-> 0, key |-> k, mode |-> m]

EncodeMsg(fid, s, t, c, i, p) ==
  [type |-> "encode", id |-> fid, seq |-> s, ts |-> t, call |-> c, idx |-> i,
   pad |-> p, key |-> NoKey, mode |-> "unset"]

\* an encode handler that would not need the encoder 'init' creates
EncodeSucceedsNoInitCheck(w, msg) == msg.seq < U16Limit

\* The 'encode' case runs inside try: writeUInt16BE(frame.sequence) throws a
\* RangeError from 65536 on, and opusEncoder.encode throws a TypeError while
\* the worker has seen no 'init' (opusEncoder is undefined).
EncodeSucceeds(w, msg) == w.init /\ msg.seq < U16Limit

\* The RTP packet the 'encode' case builds: header fields, and for the lite
\* mode the secretbox under nonce (BE32(sequence), 20 zero bytes) with the
\* 4-byte nonce suffix appended.
EncodePacket(w, msg) ==
  [seq |-> msg.seq, ts |-> msg.ts, ssrc |-> OurSsrc, call |-> msg.call,
   idx |-> msg.idx, pad |-> msg.pad,
   sealed |-> (w.mode = LiteMode),
   key |-> IF w.mode = LiteMode THEN w.key ELSE NoKey,
   tail |-> IF w.mode = LiteMode THEN msg.seq ELSE -1]

EncodedReply(fid, pkt) == [type |-> "encoded", id |-> fid, pkt |-> <<pkt>>]
ErrorReply(fid) == [type |-> "error", id |-> fid, pkt |-> <<>>]
ReadyReply == [type |-> "ready", id |-> -1, pkt |-> <<>>]

\* parentPort.on('message'): the worker thread takes its next message
WorkerStep ==
  /\ encodingWorker = "alive"
  /\ workerInbox # <<>>
  /\ LET msg == Head(workerInbox) IN
       /\ workerInbox' = Tail(workerInbox)
       /\ IF msg.type = "init"
          THEN /\ workerEnc' = [init |-> TRUE, key |-> msg.key, mode |-> msg.mode]
               /\ workerOutbox' = Append(workerOutbox, ReadyReply)
          ELSE /\ workerEnc' = workerEnc
               /\ workerOutbox' =
                    Append(workerOutbox,
                           IF EncodeSucceeds(workerEnc, msg)
                           THEN EncodedReply(msg.id, EncodePacket(workerEnc, msg))
                           ELSE ErrorReply(msg.id))
  /\ UNCHANGED <<sessVars, pacerVars, sequence, timestamp, calls>>
  /\ UNCHANGED <<encodingWorker, workerReady, pendingFrames, frameIdCounter>>
  /\ UNCHANGED recvVars
  /\ UNCHANGED <<codecVars, outerVars>>

----------------------------------------------------------------------------
(* Voice ops (UserDiscordClient.handleVoiceMessage and the handler's) *)

\* op 2 Ready: the client creates the handler and hands it the websocket; the
\* handler stores ssrc/ip/port, picks the mode, creates the UDP socket and
\* sends the IP discovery request.
VoiceReady(offer) ==
  /\ webrtcHandler = "undefined"
  /\ udpSocket = "undefined"
  /\ webrtcHandler' = "live"
  /\ encodingWorker' = "alive"
  /\ voiceWebsocket' = "open"
  /\ mode' = IF LiteMode \in offer THEN LiteMode ELSE PlainMode
  /\ udpSocket' = "open"
  /\ ipDiscovery' = "pending"
  /\ UNCHANGED <<secretKey, op4Count, workerEnc, workerInbox, workerOutbox,
                 workerReady, pendingFrames, frameIdCounter>>
  /\ UNCHANGED <<pacerVars, sequence, timestamp, calls>>
  /\ audioBufferManager' = "alive"
  /\ UNCHANGED <<transcriptionEnabled, buffers, timers, emitted, chunkCount>>
  /\ UNCHANGED <<codecVars, outerVars>>

\* the once('message') listener of performIPDiscovery: send op 1
IPDiscoveryResponse ==
  /\ ipDiscovery = "pending"
  /\ udpSocket = "open"
  /\ voiceWebsocket = "open"
  /\ ipDiscovery' = "done"
  /\ wsSent' = Append(wsSent, [op |-> 1, speaking |-> 0])
  /\ UNCHANGED <<webrtcHandler, voiceWebsocket, udpSocket, mode, secretKey,
                 op4Count>>
  /\ UNCHANGED <<speaking, isSending, sendQueue, frameIndex, pacerTimer,
                 pacerFault, wire, wireSpeaking>>
  /\ UNCHANGED <<workerVars, sequence, timestamp, calls>>
  /\ UNCHANGED recvVars
  /\ UNCHANGED <<codecVars, outerVars>>

\* op 4 Session Description: store the key, post 'init' to the encoding worker
SessionDescription(k) ==
  /\ webrtcHandler = "live"
  /\ op4Count < MaxSessionDescriptions
  /\ op4Count' = op4Count + 1
  /\ secretKey' = k
  /\ workerInbox' = Append(workerInbox, InitMsg(k, mode))
  /\ UNCHANGED <<webrtcHandler, voiceWebsocket, udpSocket, ipDiscovery, mode>>
  /\ UNCHANGED <<encodingWorker, workerEnc, workerOutbox, workerReady,
                 pendingFrames, frameIdCounter>>
  /\ UNCHANGED <<pacerVars, sequence, timestamp, calls>>
  /\ UNCHANGED recvVars
  /\ UNCHANGED <<codecVars, outerVars>>

----------------------------------------------------------------------------
(* Speaking flag and the pacer (startDirectTransmission / sendNextFrame) *)

SpeakingMsg(flag) == [op |-> 5, speaking |-> IF flag THEN 1 ELSE 0]

\* setSpeaking(flag): the ops it adds to the websocket's output
SetSpeakingSent(flag) ==
  IF speaking = flag \/ voiceWebsocket # "open"
  THEN wsSent
  ELSE Append(wsSent, SpeakingMsg(flag))

\* startDirectTransmission() entered with this.sendQueue = q. It returns at
\* once while a loop is sending or q is empty; else it raises the speaking
\* flag and runs sendNextFrame for frame 0, whose udpSocket!.send throws a
\* TypeError when the socket is gone. thrown is whether it threw.
StartDirectTransmission(q, thrown) ==
  /\ sendQueue' = q
  /\ IF isSending \/ Len(q) = 0
     THEN /\ thrown = FALSE
          /\ UNCHANGED <<speaking, isSending, frameIndex, pacerTimer,
                         pacerFault, wire, wireSpeaking, wsSent>>
     ELSE /\ isSending' = TRUE
          /\ speaking' = TRUE
          /\ wsSent' = SetSpeakingSent(TRUE)
          /\ pacerFault' = pacerFault
          /\ IF udpSocket = "open"
             THEN /\ thrown = FALSE
                  /\ wire' = Append(wire, q[1])
                  /\ wireSpeaking' = Append(wireSpeaking, TRUE)
                  /\ frameIndex' = 1
                  /\ pacerTimer' = TRUE
             ELSE /\ thrown = TRUE
                  /\ UNCHANGED <<wire, wireSpeaking>>
                  /\ frameIndex' = 0
                  /\ pacerTimer' = FALSE

\* the setTimeout(sendNextFrame, delayMs) callback
PacerWake ==
  /\ pacerTimer
  /\ IF frameIndex >= Len(sendQueue)
     THEN /\ speaking' = FALSE
          /\ wsSent' = SetSpeakingSent(FALSE)
          /\ isSending' = FALSE
          /\ sendQueue' = <<>>
          /\ pacerTimer' = FALSE
          /\ UNCHANGED <<frameIndex, pacerFault, wire, wireSpeaking>>
     ELSE IF udpSocket = "open"
     THEN /\ wire' = Append(wire, sendQueue[frameIndex + 1])
          /\ wireSpeaking' = Append(wireSpeaking, speaking)
          /\ frameIndex' = frameIndex + 1
          /\ pacerTimer' = TRUE
          /\ UNCHANGED <<speaking, isSending, sendQueue, pacerFault, wsSent>>
     ELSE \* this.udpSocket is undefined: uncaught TypeError, no re-arm
          /\ pacerFault' = TRUE
          /\ pacerTimer' = FALSE
          /\ UNCHANGED <<speaking, isSending, sendQueue, frameIndex, wire,
                         wireSpeaking, wsSent>>
  /\ UNCHANGED <<sessVars, workerVars, sequence, timestamp, calls>>
  /\ UNCHANGED recvVars
  /\ UNCHANGED <<codecVars, outerVars>>

----------------------------------------------------------------------------
(* PlayAudio (UserDiscordClient.playAudioInVoice -> handler.playAudio) *)

\* The for loop of playAudio at its head, for call c whose record is cr (i
\* frames done of n): either the next encodeFrame is posted and awaited, or
\* the loop is over and the frames go to the pacer. ts is this.timestamp
\* and pend the resolver map as the loop finds them.
PlayLoop(c, cr, ts, pend) ==
  IF cr.i < cr.n
  THEN IF encodingWorker = "alive"
       THEN /\ workerInbox' =
                 Append(workerInbox,
                        EncodeMsg(frameIdCounter, sequence, ts, c, cr.i,
                                  PadOf(cr.len, cr.i)))
            /\ pendingFrames' = pend \cup {frameIdCounter}
            /\ frameIdCounter' = frameIdCounter + 1
            /\ sequence' = sequence + 1
            /\ calls' = [calls EXCEPT ![c] =
                           [cr EXCEPT !.pc = "await", !.fid = frameIdCounter]]
            /\ UNCHANGED pacerVars
       ELSE \* this.encodingWorker is undefined: TypeError, the call rejects
            /\ calls' = [calls EXCEPT ![c] =
                           [cr EXCEPT !.pc = "failed", !.err = "TypeError"]]
            /\ pendingFrames' = pend
            /\ UNCHANGED <<workerInbox, frameIdCounter, sequence, pacerVars>>
  ELSE /\ \E thrown \in BOOLEAN :
            /\ StartDirectTransmission(cr.frames, thrown)
            /\ calls' = [calls EXCEPT ![c] =
                           IF thrown
                           THEN [cr EXCEPT !.pc = "failed", !.err = "TypeError"]
                           ELSE [cr EXCEPT !.pc = "done"]]
       /\ pendingFrames' = pend
       /\ UNCHANGED <<workerInbox, frameIdCounter, sequence>>

\* the call is made: the two readiness checks, then ffmpeg is spawned
PlayAudio(c) ==
  /\ calls[c].pc = "idle"
  /\ calls' = [calls EXCEPT ![c] =
       IF webrtcHandler # "live"
       THEN [@ EXCEPT !.pc = "failed", !.err = "NotConnected"]
       ELSE IF encodingWorker # "alive" \/ udpSocket # "open"
       THEN [@ EXCEPT !.pc = "failed", !.err = "NotReady"]
       ELSE [@ EXCEPT !.pc = "convert", !.early = (secretKey = NoKey)]]
  /\ UNCHANGED <<sessVars, workerVars, pacerVars, sequence, timestamp>>
  /\ UNCHANGED recvVars
  /\ UNCHANGED <<codecVars, outerVars>>

\* convertToPCM resolves with len bytes of PCM; the loop starts
ConvertDone(c, len) ==
  /\ calls[c].pc = "convert"
  /\ PlayLoop(c, [calls[c] EXCEPT !.len = len, !.n = FrameCount(len)],
              timestamp, pendingFrames)
  /\ UNCHANGED <<sessVars, encodingWorker, workerEnc, workerReady,
                 workerOutbox, timestamp>>
  /\ UNCHANGED recvVars
  /\ UNCHANGED <<codecVars, outerVars>>

\* worker.on('message') on the main thread, and what the resolved promise
\* runs before the next await
WorkerMessage ==
  /\ workerOutbox # <<>>
  /\ LET msg == Head(workerOutbox) IN
       /\ workerOutbox' = Tail(workerOutbox)
       /\ IF msg.type = "ready"
          THEN /\ workerReady' = TRUE
               /\ UNCHANGED <<workerInbox, pendingFrames, frameIdCounter,
                              sequence, timestamp, calls, pacerVars>>
          ELSE IF msg.id \notin pendingFrames
          THEN /\ UNCHANGED <<workerReady, workerInbox, pendingFrames,
                              frameIdCounter, sequence, timestamp, calls,
                              pacerVars>>
          ELSE IF msg.type = "error"
          THEN \* the resolver is dropped: the awaiting call is never resumed
               /\ pendingFrames' = pendingFrames \ {msg.id}
               /\ UNCHANGED <<workerReady, workerInbox, frameIdCounter,
                              sequence, timestamp, calls, pacerVars>>
          ELSE \E c \in CallIds :
               /\ calls[c].pc = "await"
               /\ calls[c].fid = msg.id
               /\ timestamp' = timestamp + SamplesPerFrame
               /\ workerReady' = workerReady
               /\ LET cr == [calls[c] EXCEPT
                               !.frames = Append(@, msg.pkt[1]),
                               !.i = @ + 1, !.fid = -1]
                      \* pendingFrames.delete(frame.id) runs before the
                      \* continuation, which is a microtask
                  IN  PlayLoop(c, cr, timestamp + SamplesPerFrame,
                               pendingFrames \ {msg.id})
  /\ UNCHANGED <<sessVars, encodingWorker, workerEnc>>
  /\ UNCHANGED recvVars
  /\ UNCHANGED <<codecVars, outerVars>>

----------------------------------------------------------------------------
(* Per-speaker buffer (AudioBufferManager) *)

RECURSIVE SumBytes(_)
SumBytes(chunks) ==
  IF chunks = <<>> THEN 0 ELSE Head(chunks).bytes + SumBytes(Tail(chunks))

\* estimateBufferDuration(chunks) > maxBufferSizeMs, that is
\* (totalBytes / 192000) * 1000 > 10000, in whole bytes per millisecond
ExceedsMaxBuffer(chunks) ==
  chunks # <<>> /\ SumBytes(chunks) > MaxBufferSizeMs * (BytesPerSecond \div 1000)

AudioReady(u, chunks) ==
  [userId |-> u, chunks |-> chunks, bytes |-> SumBytes(chunks)]

\* a flushBuffer that would return early only when the buffer is missing
FlushEmitsWhenPresent(b, u) ==
  IF u \in DOMAIN b THEN <<AudioReady(u, b[u])>> ELSE <<>>

\* flushBuffer(u) on buffer map b: the event it emits, if any
FlushEmits(b, u) ==
  IF u \in DOMAIN b /\ b[u] # <<>> THEN <<AudioReady(u, b[u])>> ELSE <<>>

\* flushBuffer(u) on buffer map b: the buffer map it leaves
FlushBuffers(b, u) ==
  IF u \in DOMAIN b /\ b[u] # <<>> THEN [b EXCEPT ![u] = <<>>] ELSE b

\* a flushBuffer that leaves the user's timer as it is
FlushTimersKept(b, tm, u) == tm

\* flushBuffer(u) with timers tm armed: the timers it leaves armed
FlushTimers(b, tm, u) ==
  IF u \in DOMAIN b /\ b[u] # <<>> THEN tm \ {u} ELSE tm

\* the buffer map after chunk ch is pushed on u's buffer
PushChunk(b, u, ch) ==
  [v \in DOMAIN b \cup {u} |->
     IF v = u
     THEN (IF u \in DOMAIN b THEN Append(b[u], ch) ELSE <<ch>>)
     ELSE b[v]]

\* the udp 'message' handler's call of addAudioChunk(u, pcm) for a decoded
\* frame of len bytes
AddAudioChunk(u, len) ==
  /\ webrtcHandler = "live"
  /\ ipDiscovery = "done"
  /\ audioBufferManager = "alive"
  /\ transcriptionEnabled
  /\ len > 0
  /\ chunkCount < MaxChunks
  /\ chunkCount' = chunkCount + 1
  /\ LET ch == [id |-> chunkCount + 1, bytes |-> len]
         pushed == PushChunk(buffers, u, ch)
         armed == timers \cup {u}
     IN IF ExceedsMaxBuffer(pushed[u])
        THEN /\ emitted' = emitted \o FlushEmits(pushed, u)
             /\ buffers' = FlushBuffers(pushed, u)
             /\ timers' = FlushTimers(pushed, armed, u)
        ELSE /\ emitted' = emitted
             /\ buffers' = pushed
             /\ timers' = armed
  /\ UNCHANGED <<audioBufferManager, transcriptionEnabled>>
  /\ UNCHANGED sendVars
  /\ UNCHANGED <<codecVars, outerVars>>

\* the silence timeout of user u fires: flushBuffer(u)
SilenceTimeout(u) ==
  /\ u \in timers
  /\ emitted' = emitted \o FlushEmits(buffers, u)
  /\ buffers' = FlushBuffers(buffers, u)
  /\ timers' = FlushTimers(buffers, timers \ {u}, u)
  /\ UNCHANGED <<audioBufferManager, transcriptionEnabled, chunkCount>>
  /\ UNCHANGED sendVars
  /\ UNCHANGED <<codecVars, outerVars>>

\* the orders in which a Map with keys S can be iterated
Orders(S) ==
  {o \in [1..Cardinality(S) -> S] :
     \A i, j \in 1..Cardinality(S) : o[i] = o[j] => i = j}

\* flushBuffer called for the user ids of order, one after the other: the
\* events emitted, the buffers and the timers left
RECURSIVE FlushAll(_, _, _)
FlushAll(b, tm, order) ==
  IF order = <<>>
  THEN [emits |-> <<>>, buffers |-> b, timers |-> tm]
  ELSE LET u == Head(order)
           rest == FlushAll(FlushBuffers(b, u), FlushTimers(b, tm, u),
                            Tail(order))
       IN  [rest EXCEPT !.emits = FlushEmits(b, u) \o @]

NoFlush == [users |-> {}, empty |-> {}]

InitFlush ==
  /\ forceFlushes = 0
  /\ lastFlush = NoFlush

\* forceFlushAll(): flushBuffer for every key of the buffer map
ForceFlushAll ==
  /\ audioBufferManager = "alive"
  /\ forceFlushes < MaxForceFlushes
  /\ forceFlushes' = forceFlushes + 1
  /\ lastFlush' = [users |-> DOMAIN buffers,
                   empty |-> {u \in DOMAIN buffers : buffers[u] = <<>>}]
  /\ \E order \in Orders(DOMAIN buffers) :
       LET all == FlushAll(buffers, timers, order) IN
         /\ emitted' = emitted \o all.emits
         /\ buffers' = all.buffers
         /\ timers' = all.timers
  /\ UNCHANGED <<audioBufferManager, transcriptionEnabled, chunkCount>>
  /\ UNCHANGED <<sendVars, codecVars, clientVars, udpVars, storeVars,
                 linkVars, sideVars>>

\* setTranscriptionEnabled(enabled)
SetTranscriptionEnabled(enabled) ==
  /\ webrtcHandler = "live"
  /\ transcriptionEnabled # enabled
  /\ transcriptionEnabled' = enabled
  /\ UNCHANGED <<audioBufferManager, buffers, timers, emitted, chunkCount>>
  /\ UNCHANGED sendVars
  /\ UNCHANGED <<codecVars, outerVars>>

\* cleanup(): every timer cleared, every buffer dropped
Cleanup ==
  /\ timers' = {}
  /\ buffers' = << >>

\* handler.disconnect() and the client's webrtcHandler = undefined, as run by
\* the voice websocket's 'close' listener and by cleanup(). keepReplies is
\* whether replies the worker had already posted still reach the main thread
\* after worker.terminate().
Disconnect(keepReplies) ==
  /\ webrtcHandler = "live"
  /\ webrtcHandler' = "undefined"
  /\ encodingWorker' = "undefined"
  /\ workerInbox' = <<>>
  /\ workerOutbox' = IF keepReplies THEN workerOutbox ELSE <<>>
  /\ udpSocket' = "closed"
  /\ voiceWebsocket' = "undefined"
  /\ audioBufferManager' = "undefined"
  /\ Cleanup
  /\ UNCHANGED <<ipDiscovery, mode, secretKey, op4Count, workerEnc,
                 workerReady, pendingFrames, frameIdCounter>>
  /\ UNCHANGED <<pacerVars, sequence, timestamp, calls>>
  /\ UNCHANGED <<transcriptionEnabled, emitted, chunkCount>>
  /\ UNCHANGED <<codecVars, outerVars>>

(* Packet sealing and opening: encoders and decoding workers *)

Zeros(n) == [i \in 1..n |-> 0]

\* Buffer.writeUInt16BE / writeUInt32BE of a value in range
BE16(x) == <<(x \div 256) % 256, x % 256>>
BE32(x) == <<(x \div 16777216) % 256, (x \div 65536) % 256,
             (x \div 256) % 256, x % 256>>

\* Buffer.readUInt16BE(off) / readUInt32BE(off), off counted from 0
ReadU16BE(b, off) == b[off + 1] * 256 + b[off + 2]
ReadU32BE(b, off) ==
  ((b[off + 1] * 256 + b[off + 2]) * 256 + b[off + 3]) * 256 + b[off + 4]

\* the 12 byte RTP header: 0x80, payload type 120, sequence, timestamp, ssrc
RtpHeader(seq, ts, ssrc) == <<128, 120>> \o BE16(seq) \o BE32(ts) \o BE32(ssrc)

\* nacl.secretbox: an authenticated box that names its message, nonce and key
Secretbox(msg, nonce, key) == [msg |-> msg, nonce |-> nonce, key |-> key]
\* the box is 16 bytes longer than the message
BoxLength(box) == Len(box.msg) + 16
\* nacl.secretbox.open: the message under the same nonce and key, else null
SecretboxOpens(box, nonce, key) == box.nonce = nonce /\ box.key = key

\* the send nonce of the lite mode: BE32(sequence) and 20 zero bytes
SendNonce(seq) == BE32(seq) \o Zeros(20)

\* EncryptedAudioEncoder, constructed with sequence = 0 and timestamp = 0
InitEnc ==
  /\ encSequence = 0
  /\ encTimestamp = 0
  /\ encCount = 0
  /\ encFirstNonce = <<>>
  /\ encLastNonce = <<>>

\* createAudioPacket in the lite mode: seal under SendNonce(sequence), then
\* sequence = (sequence + 1) & 0xFFFF and timestamp += 960
CreateAudioPacket ==
  /\ encCount < MaxEncFrames
  /\ encLastNonce' = SendNonce(encSequence)
  /\ encFirstNonce' = IF encCount = 0 THEN SendNonce(encSequence)
                                      ELSE encFirstNonce
  /\ encCount' = encCount + 1
  /\ encSequence' = (encSequence + 1) % U16Limit
  /\ encTimestamp' = encTimestamp + SamplesPerFrame
  /\ UNCHANGED <<sendVars, recvVars, boxVars, outerVars>>

\* frame sequences, timestamps and Opus payloads given to the encoding worker
FrameSequences == {0, 7, 255, 256, 65535}
FrameTimestamps == {0, 45110}
OpusPayloads == {<<248, 255, 254>>, [i \in 1..30 |-> 120]}
\* the sequence values a rewritten packet trailer can carry
TailSequences == {0, 7, 256}

Frames ==
  [sequence : FrameSequences, timestamp : FrameTimestamps,
   opusData : OpusPayloads, key : Keys, mode : {LiteMode, PlainMode}]

NoFrame == [sequence |-> 0, timestamp |-> 0, opusData |-> <<>>,
            key |-> NoKey, mode |-> PlainMode]
NoPacket == [header |-> <<>>, body |-> Secretbox(<<>>, <<>>, NoKey),
             tail |-> <<>>, rewritten |-> FALSE]
NotDecoded == [state |-> "pending", opusData |-> <<>>]

InitPacket ==
  /\ packet = NoPacket
  /\ decoded = NotDecoded
  /\ decodedEarlier = NotDecoded

\* the packet the encoding worker's 'encode' case builds: lite mode is
\* header, secretbox and the 4 byte nonce prefix; otherwise header and Opus
EncodeRtpPacket(f) ==
  IF f.mode = LiteMode
  THEN [header |-> RtpHeader(f.sequence, f.timestamp, OurSsrc),
        body |-> Secretbox(f.opusData, SendNonce(f.sequence), f.key),
        tail |-> BE32(f.sequence), rewritten |-> FALSE]
  ELSE [header |-> RtpHeader(f.sequence, f.timestamp, OurSsrc),
        body |-> Secretbox(f.opusData, <<>>, NoKey),
        tail |-> <<>>, rewritten |-> FALSE]

\* the nonce the decoding worker opens with: the 12 header bytes, the 4
\* trailer bytes, 8 zero bytes
ReceiveNonce(pkt) == pkt.header \o pkt.tail \o Zeros(8)
\* the nonce the earlier decoding worker opens with: trailer and 20 zeros
ReceiveNonceEarlier(pkt) == pkt.tail \o Zeros(20)

\* a packet the decoding worker takes for silence without opening it
IsLikelySilencePacket(pkt) ==
  /\ ReadU16BE(pkt.header, 2) = 7
  /\ ReadU32BE(pkt.header, 4) = 45110
  /\ BoxLength(pkt.body) <= 40

\* the decrypt stage of the 'decode' case: opusData, or the throw
DecryptStage(pkt, f) ==
  IF f.mode # LiteMode
  THEN [state |-> "opened", opusData |-> pkt.body.msg]
  ELSE IF IsLikelySilencePacket(pkt)
  THEN [state |-> "silence", opusData |-> <<>>]
  ELSE IF SecretboxOpens(pkt.body, ReceiveNonce(pkt), f.key)
  THEN [state |-> "opened", opusData |-> pkt.body.msg]
  ELSE [state |-> "error", opusData |-> <<>>]

DecryptStageEarlier(pkt, f) ==
  IF f.mode # LiteMode
  THEN [state |-> "opened", opusData |-> pkt.body.msg]
  ELSE IF SecretboxOpens(pkt.body, ReceiveNonceEarlier(pkt), f.key)
  THEN [state |-> "opened", opusData |-> pkt.body.msg]
  ELSE [state |-> "error", opusData |-> <<>>]

\* the encoding worker handles 'encode' for the frame
EncodeFrame ==
  /\ frame # NoFrame
  /\ packet = NoPacket
  /\ packet' = EncodeRtpPacket(frame)
  /\ UNCHANGED <<frame, decoded, decodedEarlier>>
  /\ UNCHANGED <<sendVars, recvVars, encVars, outerVars>>

\* the datagram reaches the receiver with another 4 byte trailer
RewriteTail(t) ==
  /\ packet # NoPacket
  /\ frame.mode = LiteMode
  /\ ~packet.rewritten
  /\ decoded = NotDecoded /\ decodedEarlier = NotDecoded
  /\ packet' = [packet EXCEPT !.tail = BE32(t), !.rewritten = TRUE]
  /\ UNCHANGED <<frame, decoded, decodedEarlier>>
  /\ UNCHANGED <<sendVars, recvVars, encVars, outerVars>>

\* the decoding worker handles 'decode' for the packet
DecodeFrame ==
  /\ packet # NoPacket
  /\ decoded = NotDecoded
  /\ decoded' = DecryptStage(packet, frame)
  /\ UNCHANGED <<frame, packet, decodedEarlier>>
  /\ UNCHANGED <<sendVars, recvVars, encVars, outerVars>>

\* the earlier decoding worker handles 'decode' for the packet
DecodeFrameEarlier ==
  /\ packet # NoPacket
  /\ decodedEarlier = NotDecoded
  /\ decodedEarlier' = DecryptStageEarlier(packet, frame)
  /\ UNCHANGED <<frame, packet, decoded>>
  /\ UNCHANGED <<sendVars, recvVars, encVars, outerVars>>

----------------------------------------------------------------------------
(* UserDiscordClient: joining and leaving voice, the voice websocket *)

Guilds == {"g1", "g2"}
Channels == {"c1"}
NoVoiceState == [guild_id |-> "none", channel_id |-> "none"]
NoCall == [op |-> "none", guild_id |-> "none", result |-> "none"]

\* the voice websockets that are connecting or open, the UDP sockets open
LiveSockets ==
  {i \in 1..Len(voiceSockets) : voiceSockets[i].state \in {"connecting", "open"}}
OpenUdpSockets == {i \in 1..Len(udpSockets) : udpSockets[i] = "open"}

\* the client after connect() and READY: gateway open, nothing of voice yet
InitClient ==
  /\ gatewayOpen = TRUE
  /\ gatewaySent = <<>>
  /\ pendingDispatch = {}
  /\ clientCalls = 0
  /\ lastCall = NoCall
  /\ received = {}
  /\ voiceStates = NoVoiceState
  /\ voiceSockets = <<>>
  /\ clientVoiceWs = 0
  /\ clientHandler = "undefined"
  /\ handlerWs = 0
  /\ udpSockets = <<>>
  /\ handlerUdp = 0
  /\ voiceHeartbeatInterval = FALSE

VoiceStateOp(g, ch) == [op |-> 4, guild_id |-> g, channel_id |-> ch]
GuildSubscribeOp(g, ch) == [op |-> 14, guild_id |-> g, channel_id |-> ch]
Dispatch(t, g, ch, r) == [t |-> t, guild_id |-> g, channel_id |-> ch, req |-> r]

\* WebSocket.close() on socket i of socks (i = 0: no socket)
CloseWs(socks, i) ==
  IF i # 0 /\ socks[i].state \in {"connecting", "open"}
  THEN [socks EXCEPT ![i].state = "closing"]
  ELSE socks

\* dgram socket close() on socket i of us (i = 0: no socket)
CloseUdp(us, i) == IF i # 0 THEN [us EXCEPT ![i] = "closed"] ELSE us

\* joinVoiceChannel(g, ch): throws when the gateway is not open; otherwise
\* sends op 14 and op 4 and returns
JoinVoiceChannel(g, ch) ==
  /\ clientCalls < MaxClientCalls
  /\ clientCalls' = clientCalls + 1
  /\ IF gatewayOpen
     THEN /\ gatewaySent' = gatewaySent \o
                              <<GuildSubscribeOp(g, ch), VoiceStateOp(g, ch)>>
          /\ pendingDispatch' = pendingDispatch \cup
               {Dispatch("VOICE_STATE_UPDATE", g, ch, clientCalls + 1),
                Dispatch("VOICE_SERVER_UPDATE", g, ch, clientCalls + 1)}
          /\ lastCall' = [op |-> "join", guild_id |-> g, result |-> "ok"]
     ELSE /\ UNCHANGED <<gatewaySent, pendingDispatch>>
          /\ lastCall' = [op |-> "join", guild_id |-> g, result |-> "error"]
  /\ UNCHANGED <<gatewayOpen, received, voiceStates, voiceSockets,
                 clientVoiceWs, clientHandler, handlerWs, udpSockets,
                 handlerUdp, voiceHeartbeatInterval>>
  /\ UNCHANGED <<sendVars, recvVars, codecVars, udpVars, flushVars, storeVars,
                 linkVars, sideVars>>

\* leaveVoiceChannel(g): throws when the gateway is not open; otherwise sends
\* op 4 with channel_id null and returns
LeaveVoiceChannel(g) ==
  /\ clientCalls < MaxClientCalls
  /\ clientCalls' = clientCalls + 1
  /\ IF gatewayOpen
     THEN /\ gatewaySent' = Append(gatewaySent, VoiceStateOp(g, "null"))
          /\ pendingDispatch' = pendingDispatch \cup
               {Dispatch("VOICE_STATE_UPDATE", g, "null", clientCalls + 1)}
          /\ lastCall' = [op |-> "leave", guild_id |-> g, result |-> "ok"]
     ELSE /\ UNCHANGED <<gatewaySent, pendingDispatch>>
          /\ lastCall' = [op |-> "leave", guild_id |-> g, result |-> "error"]
  /\ UNCHANGED <<gatewayOpen, received, voiceStates, voiceSockets,
                 clientVoiceWs, clientHandler, handlerWs, udpSockets,
                 handlerUdp, voiceHeartbeatInterval>>
  /\ UNCHANGED <<sendVars, recvVars, codecVars, udpVars, flushVars, storeVars,
                 linkVars, sideVars>>

\* dispatch VOICE_STATE_UPDATE of the own user: handleVoiceStateUpdate
HandleVoiceStateUpdate(d) ==
  /\ gatewayOpen
  /\ d \in pendingDispatch
  /\ d.t = "VOICE_STATE_UPDATE"
  /\ pendingDispatch' = pendingDispatch \ {d}
  /\ received' = received \cup {[t |-> d.t, req |-> d.req]}
  /\ voiceStates' = [guild_id |-> d.guild_id, channel_id |-> d.channel_id]
  /\ UNCHANGED <<gatewayOpen, gatewaySent, clientCalls, lastCall, voiceSockets,
                 clientVoiceWs, clientHandler, handlerWs, udpSockets,
                 handlerUdp, voiceHeartbeatInterval>>
  /\ UNCHANGED <<sendVars, recvVars, codecVars, udpVars, flushVars, storeVars,
                 linkVars, sideVars>>

\* dispatch VOICE_SERVER_UPDATE: handleVoiceServerUpdate returns when no
\* voice state of the own user in that guild is stored, else creates the
\* voice WebSocket and stores it in this.voiceWebsocket
HandleVoiceServerUpdate(d) ==
  /\ gatewayOpen
  /\ d \in pendingDispatch
  /\ d.t = "VOICE_SERVER_UPDATE"
  /\ pendingDispatch' = pendingDispatch \ {d}
  /\ received' = received \cup {[t |-> d.t, req |-> d.req]}
  /\ IF voiceStates # NoVoiceState /\ voiceStates.guild_id = d.guild_id
     THEN /\ voiceSockets' =
               Append(voiceSockets,
                      [state |-> "connecting", identified |-> FALSE,
                       hello |-> FALSE, ready |-> FALSE, req |-> d.req])
          /\ clientVoiceWs' = Len(voiceSockets) + 1
     ELSE UNCHANGED <<voiceSockets, clientVoiceWs>>
  /\ UNCHANGED <<gatewayOpen, gatewaySent, clientCalls, lastCall, voiceStates,
                 clientHandler, handlerWs, udpSockets, handlerUdp,
                 voiceHeartbeatInterval>>
  /\ UNCHANGED <<sendVars, recvVars, codecVars, udpVars, flushVars, storeVars,
                 linkVars, sideVars>>

\* 'open' of voice socket i: the listener sends Identify (op 0) on
\* this.voiceWebsocket, which takes it only if it is open
VoiceWsOpen(i) ==
  /\ i \in 1..Len(voiceSockets)
  /\ voiceSockets[i].state = "connecting"
  /\ LET opened == [voiceSockets EXCEPT ![i].state = "open"] IN
       voiceSockets' =
         IF opened[clientVoiceWs].state = "open"
         THEN [opened EXCEPT ![clientVoiceWs].identified = TRUE]
         ELSE opened
  /\ UNCHANGED <<gatewayOpen, gatewaySent, pendingDispatch, clientCalls,
                 lastCall, received, voiceStates, clientVoiceWs, clientHandler,
                 handlerWs, udpSockets, handlerUdp, voiceHeartbeatInterval>>
  /\ UNCHANGED <<sendVars, recvVars, codecVars, udpVars, flushVars, storeVars,
                 linkVars, sideVars>>

\* voice op 8 Hello on socket i: startVoiceHeartbeat
VoiceHello(i) ==
  /\ i \in 1..Len(voiceSockets)
  /\ voiceSockets[i].state = "open"
  /\ ~voiceSockets[i].hello
  /\ voiceSockets' = [voiceSockets EXCEPT ![i].hello = TRUE]
  /\ voiceHeartbeatInterval' = TRUE
  /\ UNCHANGED <<gatewayOpen, gatewaySent, pendingDispatch, clientCalls,
                 lastCall, received, voiceStates, clientVoiceWs, clientHandler,
                 handlerWs, udpSockets, handlerUdp>>
  /\ heartbeat' = [sent |-> 0, acked |-> 0, ws |-> i]
  /\ UNCHANGED <<reconnectFor, connectStarted, lastSpeaking>>
  /\ UNCHANGED <<sendVars, recvVars, codecVars, udpVars, flushVars, storeVars,
                 sideVars>>

\* voice op 2 Ready on socket i: the client creates the handler unless it
\* has one, hands it this.voiceWebsocket, and the handler's op 2 creates a
\* UDP socket
VoiceReadyMessage(i) ==
  /\ i \in 1..Len(voiceSockets)
  /\ voiceSockets[i].state = "open"
  /\ voiceSockets[i].identified
  /\ ~voiceSockets[i].ready
  /\ voiceSockets' = [voiceSockets EXCEPT ![i].ready = TRUE]
  /\ clientHandler' = "live"
  /\ IF voiceStates # NoVoiceState /\ clientVoiceWs # 0
     THEN /\ handlerWs' = clientVoiceWs
          /\ udpSockets' = Append(udpSockets, "open")
          /\ handlerUdp' = Len(udpSockets) + 1
     ELSE UNCHANGED <<handlerWs, udpSockets, handlerUdp>>
  /\ UNCHANGED <<gatewayOpen, gatewaySent, pendingDispatch, clientCalls,
                 lastCall, received, voiceStates, clientVoiceWs,
                 voiceHeartbeatInterval>>
  /\ UNCHANGED <<sendVars, recvVars, codecVars, udpVars, flushVars, storeVars,
                 linkVars, sideVars>>

\* 'close' of voice socket i: the listener disconnects whatever handler the
\* client holds: handler.disconnect() closes its UDP socket and websocket
VoiceWsClose(i) ==
  /\ i \in 1..Len(voiceSockets)
  /\ voiceSockets[i].state # "closed"
  /\ LET closed == [voiceSockets EXCEPT ![i].state = "closed"] IN
       IF clientHandler = "live"
       THEN /\ voiceSockets' = CloseWs(closed, handlerWs)
            /\ udpSockets' = CloseUdp(udpSockets, handlerUdp)
            /\ handlerWs' = 0
            /\ handlerUdp' = 0
            /\ clientHandler' = "undefined"
       ELSE /\ voiceSockets' = closed
            /\ UNCHANGED <<udpSockets, handlerWs, handlerUdp, clientHandler>>
  /\ UNCHANGED <<gatewayOpen, gatewaySent, pendingDispatch, clientCalls,
                 lastCall, received, voiceStates, clientVoiceWs,
                 voiceHeartbeatInterval>>
  /\ UNCHANGED <<sendVars, recvVars, codecVars, udpVars, flushVars, storeVars,
                 linkVars, sideVars>>

\* cleanup(), from reconnect() and disconnect(): both heartbeats cleared,
\* gateway and voice websocket closed, the handler disconnected
ClientCleanup ==
  /\ gatewayOpen
  /\ gatewayOpen' = FALSE
  /\ voiceHeartbeatInterval' = FALSE
  /\ IF clientHandler = "live"
     THEN /\ voiceSockets' = CloseWs(CloseWs(voiceSockets, clientVoiceWs),
                                     handlerWs)
          /\ udpSockets' = CloseUdp(udpSockets, handlerUdp)
          /\ handlerWs' = 0
          /\ handlerUdp' = 0
          /\ clientHandler' = "undefined"
     ELSE /\ voiceSockets' = CloseWs(voiceSockets, clientVoiceWs)
          /\ UNCHANGED <<udpSockets, handlerWs, handlerUdp, clientHandler>>
  /\ UNCHANGED <<gatewaySent, pendingDispatch, clientCalls, lastCall, received,
                 voiceStates, clientVoiceWs>>
  /\ UNCHANGED <<sendVars, recvVars, codecVars, udpVars, flushVars, storeVars,
                 linkVars, sideVars>>

\* connect() again, 5 s after reconnect(): the gateway is open again
GatewayConnect ==
  /\ ~gatewayOpen
  /\ gatewayOpen' = TRUE
  /\ UNCHANGED <<gatewaySent, pendingDispatch, clientCalls, lastCall, received,
                 voiceStates, voiceSockets, clientVoiceWs, clientHandler,
                 handlerWs, udpSockets, handlerUdp, voiceHeartbeatInterval>>
  /\ reconnectFor' = 0
  /\ connectStarted' = [op |-> reconnectFor, resumable |-> TRUE]
  /\ UNCHANGED <<heartbeat, lastSpeaking>>
  /\ UNCHANGED <<sendVars, recvVars, codecVars, udpVars, flushVars, storeVars,
                 sideVars>>

----------------------------------------------------------------------------
(* The receive path: udp 'message' listener and the decoding worker *)

\* the ssrc a peer's op 5 announces and its RTP packets carry
PeerSsrc == 11
\* (sequence, timestamp) of the RTP packets received
RxFrames == {[seq |-> 7, ts |-> 45110], [seq |-> 8, ts |-> 46070]}
\* Opus payloads of the packets received
RxPayloads == {<<248, 255, 254>>, <<0, 120, 120>>, <<190, 222, 0, 0, 9>>,
               [i \in 1..12 |-> 120]}
\* one-byte-header extension blocks, in whole 32-bit words: none, an
\* element of 1 data byte and padding, an element of 3 data bytes
ExtensionBlocks == {<<>>, <<16, 5, 0, 0>>, <<50, 1, 2, 3>>}
\* `user_${n}`
PlaceholderNames == (7 :> "user_7") @@ (8 :> "user_8") @@ (70 :> "user_70")
Placeholder(n) == PlaceholderNames[n]

\* payload P behind a 0xBEDE extension header: BE DE, the number of
\* extension words, the extension block, P
Append0xBEDEHeader(P, ext) == <<190, 222>> \o BE16(Len(ext) \div 4) \o ext \o P

\* the for loop of extractOpusFromRTP: the offset it ends at
RECURSIVE SkipExtensions(_, _, _, _)
SkipExtensions(b, offset, i, rtpHLen) ==
  IF i < rtpHLen /\ offset < Len(b)
  THEN SkipExtensions(b, offset + ((b[offset + 1] % 16) + 1) * 4, i + 1,
                      rtpHLen)
  ELSE offset

\* the while loop of extractOpusFromRTP: the offset it ends at
RECURSIVE SkipZeros(_, _)
SkipZeros(b, offset) ==
  IF offset < Len(b) /\ b[offset + 1] = 0
  THEN SkipZeros(b, offset + 1)
  ELSE offset

\* extractOpusFromRTP(opusData)
ExtractOpusFromRTP(b) ==
  IF Len(b) > 4 /\ b[1] = 190 /\ b[2] = 222
  THEN SubSeq(b, SkipZeros(b, SkipExtensions(b, 4, 0, ReadU16BE(b, 2))) + 1,
              Len(b))
  ELSE b

\* A datagram: its first 12 bytes, then either a secretbox and a 4 byte
\* trailer (sealed) or plain bytes (rest). opus and ext are the payload and
\* the extension block it was built from, framed whether a 0xBEDE header
\* was put before the payload.
NoDatagram ==
  [kind |-> "none", header |-> <<>>, sealed |-> FALSE,
   box |-> Secretbox(<<>>, <<>>, NoKey), tail |-> <<>>, rest |-> <<>>,
   opus |-> <<>>, ext |-> <<>>, framed |-> FALSE]

\* an IP discovery datagram: type 0x0001, length 70, ssrc, the address as a
\* zero-terminated string in 64 bytes, the port: 74 bytes
DiscoveryDatagram ==
  [NoDatagram EXCEPT
     !.kind = "discovery",
     !.header = BE16(1) \o BE16(70) \o BE32(OurSsrc) \o <<49, 46, 50, 46>>,
     !.rest = <<51, 46, 52>> \o Zeros(57) \o BE16(50000)]

\* RTP packets of a peer in the clear
PlainDatagrams ==
  {[NoDatagram EXCEPT
      !.kind = "rtp", !.header = RtpHeader(f.seq, f.ts, PeerSsrc),
      !.rest = P, !.opus = P] : f \in RxFrames, P \in RxPayloads}
  \cup
  {[NoDatagram EXCEPT
      !.kind = "rtp", !.header = RtpHeader(f.seq, f.ts, PeerSsrc),
      !.rest = Append0xBEDEHeader(P, e), !.opus = P, !.ext = e,
      !.framed = TRUE] : f \in RxFrames, P \in RxPayloads,
                         e \in ExtensionBlocks}

\* RTP packets of a peer sealed for the lite mode, under the nonce the
\* decoding worker opens with or under the nonce the encoders here seal with
SealedDatagrams ==
  {[NoDatagram EXCEPT
      !.kind = "rtp", !.header = RtpHeader(f.seq, f.ts, PeerSsrc),
      !.sealed = TRUE, !.tail = BE32(f.seq),
      !.box = Secretbox(P,
                        IF own THEN SendNonce(f.seq)
                        ELSE RtpHeader(f.seq, f.ts, PeerSsrc) \o BE32(f.seq)
                               \o Zeros(8),
                        k),
      !.opus = P] : f \in RxFrames, P \in RxPayloads, k \in Keys,
                    own \in BOOLEAN}

\* a datagram of 8 bytes: shorter than an RTP header
ShortDatagram ==
  [NoDatagram EXCEPT !.kind = "short",
                     !.header = <<128, 120>> \o BE16(8) \o BE32(46070)]

\* the header of RTP version 1: 0x40 for 0x80
RtpHeaderV1(seq, ts, ssrc) == <<64, 120>> \o BE16(seq) \o BE32(ts) \o BE32(ssrc)

\* packets of RTP version 1 carrying 12 bytes of Opus, in the clear and
\* sealed under the nonce the decoding worker opens with
WrongVersionDatagrams ==
  LET P == [i \in 1..12 |-> 120]
      h == RtpHeaderV1(8, 46070, PeerSsrc)
  IN  {[NoDatagram EXCEPT !.kind = "rtp", !.header = h, !.rest = P,
                          !.opus = P]}
      \cup
      {[NoDatagram EXCEPT
          !.kind = "rtp", !.header = h, !.sealed = TRUE, !.tail = BE32(8),
          !.box = Secretbox(P, h \o BE32(8) \o Zeros(8), k),
          !.opus = P] : k \in Keys}

Datagrams ==
  {DiscoveryDatagram, ShortDatagram} \cup PlainDatagrams \cup SealedDatagrams
    \cup WrongVersionDatagrams

\* (packet[0] & 0b11000000) >> 6 of a datagram that has a first byte
RtpVersion(d) == d.header[1] \div 64

\* the bytes of a secretbox are ciphertext: opaque, taken here as bytes
\* that start no 0xBEDE header
CipherBytes(box) == [i \in 1..BoxLength(box) |-> 255]

\* packet.length and packet.slice(12)
DatagramLength(d) ==
  Len(d.header) + (IF d.sealed THEN BoxLength(d.box) + 4 ELSE Len(d.rest))
AfterHeader(d) == IF d.sealed THEN CipherBytes(d.box) \o d.tail ELSE d.rest

\* rtpPacket.slice(12, -4).length
EncryptedLength(d) == DatagramLength(d) - 16

NoReply ==
  [type |-> "none", pcmLen |-> 0, silence |-> FALSE, sequence |-> 0,
   plain |-> <<>>, clean |-> <<>>, invoked |-> FALSE, lite |-> FALSE,
   opened |-> FALSE]

\* isLikelySilencePacket of a datagram of 16 bytes or more
IsLikelySilenceDatagram(d) ==
  /\ ReadU16BE(d.header, 2) = 7
  /\ ReadU32BE(d.header, 4) = 45110
  /\ EncryptedLength(d) <= 40

\* nacl.secretbox.open(encryptedData, nonce, secretKey) of worker w returns
\* the plaintext: the nonce is the 12 header bytes, the 4 trailer bytes and
\* 8 zero bytes
Opens(w, d) ==
  d.sealed /\ SecretboxOpens(d.box, d.header \o d.tail \o Zeros(8), w.key)

\* worker w calls nacl.secretbox.open on datagram d
OpenAttempted(w, d) ==
  /\ w.mode = LiteMode
  /\ DatagramLength(d) >= 16
  /\ ~IsLikelySilenceDatagram(d)

\* worker w calls nacl.secretbox.open on datagram d and gets null
OpenFails(w, d) == OpenAttempted(w, d) /\ ~Opens(w, d)

\* the reply to a datagram the worker got past its length checks and its
\* open with: plain is what extractOpusFromRTP is given
DecodedReply(w, d, opusOk, plain) ==
  LET clean == ExtractOpusFromRTP(plain) IN
    [type |-> "decoded", pcmLen |-> FrameSize,
     silence |-> ~(clean # <<>> /\ w.init /\ opusOk),
     sequence |-> ReadU16BE(d.header, 2), plain |-> plain, clean |-> clean,
     invoked |-> (clean # <<>> /\ w.init), lite |-> w.mode = LiteMode,
     opened |-> (OpenAttempted(w, d) /\ Opens(w, d))]

\* a 'decode' case that goes on with the bytes of the box when the open
\* returns null
DecodeResultUnchecked(w, d, opusOk) ==
  IF DatagramLength(d) < 12
  THEN [NoReply EXCEPT !.type = "error"]
  ELSE IF w.mode = LiteMode /\ DatagramLength(d) < 16
  THEN [NoReply EXCEPT !.type = "error",
                       !.sequence = ReadU16BE(d.header, 2), !.lite = TRUE]
  ELSE DecodedReply(w, d, opusOk,
                    IF w.mode # LiteMode THEN AfterHeader(d)
                    ELSE IF IsLikelySilenceDatagram(d) THEN <<>>
                    ELSE IF Opens(w, d) THEN d.box.msg
                    ELSE SubSeq(AfterHeader(d), 1, EncryptedLength(d)))

\* The 'decode' case of the decoding worker in state w for datagram d; opusOk
\* is whether opusDecoder.decode accepts the bytes it is given. The reply
\* carries, besides what the worker posts, the plaintext it worked on, what
\* extractOpusFromRTP left of it, whether the Opus decoder was called
\* (before 'init' there is no decoder: the call throws, the PCM is silence),
\* whether the worker was in the lite mode and whether it opened the box.
DecodeResult(w, d, opusOk) ==
  IF DatagramLength(d) < 12
  THEN [NoReply EXCEPT !.type = "error"]
  ELSE IF w.mode = LiteMode /\ (DatagramLength(d) < 16 \/ OpenFails(w, d))
  THEN [NoReply EXCEPT !.type = "error",
                       !.sequence = ReadU16BE(d.header, 2), !.lite = TRUE]
  ELSE DecodedReply(w, d, opusOk,
                    IF w.mode # LiteMode THEN AfterHeader(d)
                    ELSE IF IsLikelySilenceDatagram(d) THEN <<>>
                    ELSE d.box.msg)

DecInitMsg(k, m) == [type |-> "init", key |-> k, mode |-> m, dg |-> NoDatagram]
DecodeMsg(d) == [type |-> "decode", key |-> NoKey, mode |-> "unset", dg |-> d]

NoRx == [datagram |-> NoDatagram, reply |-> NoReply, userId |-> "none"]

InitUdp ==
  /\ decodingWorker = [init |-> FALSE, key |-> NoKey, mode |-> "unset"]
  /\ decInbox = <<>>
  /\ decInits = 0
  /\ ssrcUserMap = << >>
  /\ datagram = NoDatagram
  /\ decodeReply = NoReply
  /\ rxCount = 0
  /\ lastRx = NoRx
  /\ chunkSsrc = << >>

\* op 4 past `await encodingWorker.initialize`: the handler posts 'init'
\* with its key and mode to the decoding worker
DecoderInitialize ==
  /\ webrtcHandler = "live"
  /\ workerReady
  /\ decInits < op4Count
  /\ decInits' = decInits + 1
  /\ decInbox' = Append(decInbox, DecInitMsg(secretKey, mode))
  /\ UNCHANGED <<decodingWorker, ssrcUserMap, datagram, decodeReply, rxCount,
                 lastRx, chunkSsrc>>
  /\ UNCHANGED <<sendVars, recvVars, codecVars, clientVars, flushVars,
                 storeVars, linkVars, sideVars>>

\* the udp 'message' listener takes datagram d: it posts 'decode' and awaits
UdpReceive(d, limit) ==
  /\ webrtcHandler = "live"
  /\ udpSocket = "open"
  /\ ipDiscovery = "done"
  /\ datagram = NoDatagram
  /\ rxCount < limit
  /\ rxCount' = rxCount + 1
  /\ datagram' = d
  /\ decInbox' = Append(decInbox, DecodeMsg(d))
  /\ UNCHANGED <<decodingWorker, decInits, ssrcUserMap, decodeReply, lastRx,
                 chunkSsrc>>
  /\ UNCHANGED <<sendVars, recvVars, codecVars, clientVars, flushVars,
                 storeVars, linkVars, sideVars>>

UdpMessage(d) == UdpReceive(d, MaxDatagrams)

\* parentPort.on('message') of the decoding worker: its next message
DecodingWorkerStep(opusOk) ==
  /\ webrtcHandler = "live"
  /\ decInbox # <<>>
  /\ LET msg == Head(decInbox) IN
       /\ decInbox' = Tail(decInbox)
       /\ IF msg.type = "init"
          THEN /\ decodingWorker' =
                    [init |-> TRUE, key |-> msg.key, mode |-> msg.mode]
               /\ UNCHANGED decodeReply
          ELSE /\ decodeReply' = DecodeResult(decodingWorker, msg.dg, opusOk)
               /\ UNCHANGED decodingWorker
  /\ UNCHANGED <<decInits, ssrcUserMap, datagram, rxCount, lastRx, chunkSsrc>>
  /\ UNCHANGED <<sendVars, recvVars, codecVars, clientVars, flushVars,
                 storeVars, linkVars, sideVars>>

\* what addAudioChunk(u, pcm of len bytes) does to the buffer manager
AddChunkEffect(u, len) ==
  /\ chunkCount' = chunkCount + 1
  /\ LET ch == [id |-> chunkCount + 1, bytes |-> len]
         pushed == PushChunk(buffers, u, ch)
         armed == timers \cup {u}
     IN IF ExceedsMaxBuffer(pushed[u])
        THEN /\ emitted' = emitted \o FlushEmits(pushed, u)
             /\ buffers' = FlushBuffers(pushed, u)
             /\ timers' = FlushTimers(pushed, armed, u)
        ELSE /\ emitted' = emitted
             /\ buffers' = pushed
             /\ timers' = armed

\* The decoding worker's reply reaches the main thread. 'decoded' resumes
\* the listener, which picks the user id for the chunk from ssrcUserMap or
\* the placeholder and calls addAudioChunk; 'error' drops the resolver, and
\* the listener is never resumed.
DecodedMessage ==
  /\ decodeReply.type # "none"
  /\ LET packetSsrc == IF DatagramLength(datagram) >= 12
                       THEN ReadU32BE(datagram.header, 8)
                       ELSE 0
         userId == IF packetSsrc # 0 /\ packetSsrc \in DOMAIN ssrcUserMap
                   THEN ssrcUserMap[packetSsrc]
                   ELSE Placeholder(decodeReply.sequence % 1000)
     IN IF /\ decodeReply.type = "decoded"
           /\ transcriptionEnabled
           /\ audioBufferManager = "alive"
           /\ decodeReply.pcmLen > 0
        THEN /\ AddChunkEffect(userId, decodeReply.pcmLen)
             /\ chunkSsrc' = [c \in DOMAIN chunkSsrc \cup {chunkCount + 1} |->
                                IF c = chunkCount + 1 THEN packetSsrc
                                ELSE chunkSsrc[c]]
             /\ lastRx' = [lastRx EXCEPT !.datagram = datagram,
                                         !.reply = decodeReply,
                                         !.userId = userId]
        ELSE /\ UNCHANGED <<buffers, timers, emitted, chunkCount, chunkSsrc>>
             /\ lastRx' = [lastRx EXCEPT !.datagram = datagram,
                                         !.reply = decodeReply,
                                         !.userId = "none"]
  /\ datagram' = NoDatagram
  /\ decodeReply' = NoReply
  /\ UNCHANGED <<decodingWorker, decInbox, decInits, ssrcUserMap, rxCount>>
  /\ UNCHANGED <<audioBufferManager, transcriptionEnabled>>
  /\ UNCHANGED <<sendVars, codecVars, clientVars, flushVars, storeVars,
                 linkVars, sideVars>>

\* op 5 Speaking of a peer: ssrcUserMap.set(ssrc, user_id)
SpeakingEvent(ssrc, u) ==
  /\ webrtcHandler = "live"
  /\ ssrc # 0
  /\ ~(ssrc \in DOMAIN ssrcUserMap /\ ssrcUserMap[ssrc] = u)
  /\ ssrcUserMap' = [x \in DOMAIN ssrcUserMap \cup {ssrc} |->
                       IF x = ssrc THEN u ELSE ssrcUserMap[x]]
  /\ UNCHANGED <<decodingWorker, decInbox, decInits, datagram, decodeReply,
                 rxCount, lastRx, chunkSsrc>>
  /\ UNCHANGED <<sendVars, recvVars, codecVars, clientVars, flushVars,
                 storeVars, linkVars, sideVars>>

----------------------------------------------------------------------------
(* IP discovery: the once('message') listener of performIPDiscovery *)

\* the bytes of a datagram
DatagramBytes(d) == d.header \o AfterHeader(d)

\* response.indexOf(0, 8): the offset of the first zero byte at or after
\* offset 8, or -1
RECURSIVE IndexOfZero(_, _)
IndexOfZero(b, offset) ==
  IF offset >= Len(b) THEN -1
  ELSE IF b[offset + 1] = 0 THEN offset
  ELSE IndexOfZero(b, offset + 1)

\* response.slice(8, end): a negative end counts from the end of the buffer
SliceFrom8(b, end) ==
  LET stop == IF end < 0 THEN Len(b) + end ELSE end
  IN  IF stop > 8 /\ Len(b) > 8 THEN SubSeq(b, 9, stop) ELSE <<>>

NoSelection == [ip |-> <<>>, port |-> 0, length |-> 0, type |-> 0]

InitSide ==
  /\ selected = NoSelection
  /\ sessions = {}
  /\ closes = << >>
  /\ callStack = <<>>
  /\ now = 0
  /\ firstAt = << >>
  /\ deadline = << >>

\* the once('message') listener takes datagram d, the first to arrive after
\* the request: ip and port are read out of it and op 1 is sent
DiscoveryMessage(d) ==
  /\ ipDiscovery = "pending"
  /\ udpSocket = "open"
  /\ voiceWebsocket = "open"
  /\ ipDiscovery' = "done"
  /\ wsSent' = Append(wsSent, [op |-> 1, speaking |-> 0])
  /\ LET response == DatagramBytes(d) IN
       selected' = [ip |-> SliceFrom8(response, IndexOfZero(response, 8)),
                    port |-> ReadU16BE(response, Len(response) - 2),
                    length |-> Len(response),
                    type |-> ReadU16BE(response, 0)]
  /\ UNCHANGED <<webrtcHandler, voiceWebsocket, udpSocket, mode, secretKey,
                 op4Count>>
  /\ UNCHANGED <<speaking, isSending, sendQueue, frameIndex, pacerTimer,
                 pacerFault, wire, wireSpeaking>>
  /\ UNCHANGED <<workerVars, sequence, timestamp, calls>>
  /\ UNCHANGED recvVars
  /\ UNCHANGED <<codecVars, clientVars, udpVars, flushVars, storeVars,
                 linkVars, mgrVars, clockVars>>

----------------------------------------------------------------------------
(* The buffer manager's timeouts on a clock *)

\* the clock advances in ticks of one second
TickMs == 1000
SilenceTicks == BufferTimeoutMs \div TickMs
CapTicks == MaxBufferSizeMs \div TickMs

MaxClock == 11
MaxClockChunks == 6

\* f with u mapped to t
SetAt(f, u, t) == [v \in DOMAIN f \cup {u} |-> IF v = u THEN t ELSE f[v]]

\* addAudioChunk(u, pcm) at the time now, as the udp listener calls it with
\* one decoded frame: the chunk's timestamp is
\* Date.now() and the silence timeout is re-armed to fire bufferTimeoutMs
\* later
ClockChunk(u, len) ==
  /\ webrtcHandler = "live"
  /\ ipDiscovery = "done"
  /\ audioBufferManager = "alive"
  /\ transcriptionEnabled
  /\ chunkCount < MaxClockChunks
  /\ AddChunkEffect(u, len)
  /\ firstAt' = IF u \in DOMAIN buffers /\ buffers[u] # <<>>
                THEN firstAt
                ELSE SetAt(firstAt, u, now)
  /\ deadline' = SetAt(deadline, u, now + SilenceTicks)
  /\ UNCHANGED <<audioBufferManager, transcriptionEnabled, now>>
  /\ UNCHANGED sendVars
  /\ UNCHANGED <<codecVars, clientVars, udpVars, flushVars, storeVars,
                 linkVars, selected, mgrVars>>

\* the silence timeout of u fires once it is due
ClockTimeout(u) ==
  /\ u \in timers
  /\ deadline[u] <= now
  /\ SilenceTimeout(u)

\* a second passes; a timeout that is due fires before the next second
Tick ==
  /\ now < MaxClock
  /\ \A u \in timers : deadline[u] > now
  /\ now' = now + 1
  /\ UNCHANGED <<firstAt, deadline>>
  /\ UNCHANGED <<sendVars, recvVars, codecVars, clientVars, udpVars,
                 flushVars, storeVars, linkVars, selected, mgrVars>>

----------------------------------------------------------------------------
(* SessionManager: createSession / removeSession *)

SessionIds == {"s1", "s2"}

\* the depth of nested calls at which the engine's stack is exhausted
MaxStackDepth == 3

\* everything but the session manager
notMgrVars == <<sendVars, recvVars, codecVars, clientVars, udpVars, flushVars,
                storeVars, linkVars, selected, clockVars>>

\* createSession(transport) for a transport whose sessionId is id
CreateSession(id) ==
  /\ callStack = <<>>
  /\ id \notin DOMAIN closes
  /\ sessions' = sessions \cup {id}
  /\ closes' = closes @@ (id :> 0)
  /\ UNCHANGED callStack
  /\ UNCHANGED notMgrVars

\* removeSession(id) is called from the event loop: by the transport's
\* onclose, by a failed keep-alive or by the stale-session sweep
RemoveSession(id) ==
  /\ callStack = <<>>
  /\ id \in DOMAIN closes
  /\ callStack' = <<[id |-> id, pc |-> "get"]>>
  /\ UNCHANGED <<sessions, closes>>
  /\ UNCHANGED notMgrVars

\* the stack with its innermost call at pc
AtPc(pc) == [callStack EXCEPT ![Len(callStack)].pc = pc]
Returned == SubSeq(callStack, 1, Len(callStack) - 1)

\* the innermost removeSession call runs to its next call or to its return.
\* reenters is whether transport.close() invokes transport.onclose before it
\* returns; the wrapped onclose calls removeSession(id) again, unless the
\* stack is exhausted, in which case close() returns a rejected promise.
RemoveSessionStep(reenters) ==
  /\ callStack # <<>>
  /\ LET top == callStack[Len(callStack)] IN
       CASE top.pc = "get" ->
              /\ reenters = FALSE
              /\ callStack' = IF top.id \in sessions
                              THEN AtPc("close") ELSE Returned
              /\ UNCHANGED <<sessions, closes>>
         [] top.pc = "close" ->
              /\ closes' = [closes EXCEPT ![top.id] = @ + 1]
              /\ callStack' =
                   IF reenters /\ Len(callStack) < MaxStackDepth
                   THEN Append(AtPc("delete"), [id |-> top.id, pc |-> "get"])
                   ELSE AtPc("delete")
              /\ UNCHANGED sessions
         [] top.pc = "delete" ->
              /\ reenters = FALSE
              /\ sessions' = sessions \ {top.id}
              /\ callStack' = Returned
              /\ UNCHANGED closes
  /\ UNCHANGED notMgrVars

----------------------------------------------------------------------------
(* The gateway's reconnect opcodes, the voice heartbeat, voice op 5 *)

NoConnect == [op |-> 0, resumable |-> TRUE]
NoSpeaking == [ssrc |-> 0, user_id |-> "none"]

InitLink ==
  /\ reconnectFor = 0
  /\ connectStarted = NoConnect
  /\ heartbeat = [sent |-> 0, acked |-> 0, ws |-> 0]
  /\ lastSpeaking = NoSpeaking

\* handleMessage, gateway op 7 (Reconnect) and op 9 (Invalid Session, d is
\* whether it can be resumed): op 7 and a resumable op 9 call reconnect(),
\* which runs cleanup() and sets the 5 s timer for connect(); op 9 with d
\* false calls connect() at once
GatewayOpcode(op, d) ==
  /\ gatewayOpen
  /\ IF op = 7 \/ d
     THEN /\ gatewayOpen' = FALSE
          /\ voiceHeartbeatInterval' = FALSE
          /\ IF clientHandler = "live"
             THEN /\ voiceSockets' =
                       CloseWs(CloseWs(voiceSockets, clientVoiceWs), handlerWs)
                  /\ udpSockets' = CloseUdp(udpSockets, handlerUdp)
                  /\ handlerWs' = 0
                  /\ handlerUdp' = 0
                  /\ clientHandler' = "undefined"
             ELSE /\ voiceSockets' = CloseWs(voiceSockets, clientVoiceWs)
                  /\ UNCHANGED <<udpSockets, handlerWs, handlerUdp,
                                 clientHandler>>
          /\ reconnectFor' = op
          /\ UNCHANGED connectStarted
     ELSE /\ connectStarted' = [op |-> op, resumable |-> FALSE]
          /\ UNCHANGED <<gatewayOpen, voiceHeartbeatInterval, voiceSockets,
                         udpSockets, handlerWs, handlerUdp, clientHandler,
                         reconnectFor>>
  /\ UNCHANGED <<gatewaySent, pendingDispatch, clientCalls, lastCall, received,
                 voiceStates, clientVoiceWs>>
  /\ UNCHANGED <<heartbeat, lastSpeaking>>
  /\ UNCHANGED <<sendVars, recvVars, codecVars, udpVars, flushVars, storeVars,
                 sideVars>>

\* the voice heartbeat interval fires: op 3 is sent when this.voiceWebsocket
\* is open; nothing else is looked at
VoiceHeartbeat ==
  /\ voiceHeartbeatInterval
  /\ heartbeat.sent < MaxHeartbeats
  /\ heartbeat' = [heartbeat EXCEPT !.sent = @ + 1]
  /\ UNCHANGED <<reconnectFor, connectStarted, lastSpeaking>>
  /\ UNCHANGED <<sendVars, recvVars, codecVars, clientVars, udpVars, flushVars,
                 storeVars, sideVars>>

\* voice op 6 (Heartbeat ACK) on socket i: the client logs it
VoiceHeartbeatAck(i) ==
  /\ i \in 1..Len(voiceSockets)
  /\ voiceSockets[i].state = "open"
  /\ heartbeat.ws = i
  /\ heartbeat.acked < heartbeat.sent
  /\ heartbeat' = [heartbeat EXCEPT !.acked = heartbeat.sent]
  /\ UNCHANGED <<reconnectFor, connectStarted, lastSpeaking>>
  /\ UNCHANGED <<sendVars, recvVars, codecVars, clientVars, udpVars, flushVars,
                 storeVars, sideVars>>

\* voice op 5 (Speaking) with ssrc and user id on socket i: the client
\* passes it to the handler if it holds one, and the handler binds the ssrc
VoiceSpeaking(i, ssrc, u) ==
  /\ i \in 1..Len(voiceSockets)
  /\ voiceSockets[i].state = "open"
  /\ ssrc # 0
  /\ lastSpeaking' = [ssrc |-> ssrc, user_id |-> u]
  /\ IF clientHandler = "live"
     THEN ssrcUserMap' = [x \in DOMAIN ssrcUserMap \cup {ssrc} |->
                            IF x = ssrc THEN u ELSE ssrcUserMap[x]]
     ELSE UNCHANGED ssrcUserMap
  /\ UNCHANGED <<decodingWorker, decInbox, decInits, datagram, decodeReply,
                 rxCount, lastRx, chunkSsrc>>
  /\ UNCHANGED <<reconnectFor, connectStarted, heartbeat>>
  /\ UNCHANGED <<sendVars, recvVars, codecVars, clientVars, flushVars,
                 storeVars, sideVars>>

----------------------------------------------------------------------------
(* TranscriptStore: the in-memory list and the file that mirrors it *)

Usernames == {"alice"}
Texts == {"hello"}
\* `User_${entry.userId.slice(-4)}`
DefaultNames == ("u1" :> "User_u1") @@ ("u2" :> "User_u2")
\* the entries handed to addTranscription: username may be missing
Entries ==
  [userId : UserIds, username : Usernames \cup {"undefined"}, text : Texts]

\* the file: the transcription list it holds, how much data it holds, and
\* whether what it holds is torn (truncated and not yet written, or a
\* shorter text written over a longer one)
NoFile == [transcriptions |-> <<>>, size |-> 0, torn |-> FALSE, exists |-> FALSE]

\* JSON.stringify(data) in save(): what is written, and how much it is
Snapshot == [transcriptions |-> transcriptions, names |-> DOMAIN userMap]
SnapshotSize(snap) == 1 + Len(snap.transcriptions) + Cardinality(snap.names)

InitStore ==
  /\ transcriptions = <<>>
  /\ userMap = << >>
  /\ saves = {}
  /\ saveCount = 0
  /\ storeCalls = 0
  /\ file = NoFile

\* save() up to its await: the data is serialised and fs.writeFile called
SaveStarted ==
  /\ saveCount' = saveCount + 1
  /\ saves' = saves \cup {[id |-> saveCount + 1, snap |-> Snapshot',
                           opened |-> FALSE]}

\* initialize(): the directory is made, the empty list is saved
Initialize ==
  /\ saveCount = 0
  /\ UNCHANGED <<transcriptions, userMap, storeCalls, file>>
  /\ SaveStarted
  /\ UNCHANGED <<sendVars, recvVars, codecVars, clientVars, udpVars, flushVars,
                 linkVars, sideVars>>

\* addTranscription(entry): the username is filled in, the entry pushed,
\* save() called
AddTranscription(entry) ==
  /\ storeCalls < MaxStoreCalls
  /\ storeCalls' = storeCalls + 1
  /\ transcriptions' =
       Append(transcriptions,
              IF entry.username = "undefined"
              THEN [entry EXCEPT !.username =
                      IF entry.userId \in DOMAIN userMap
                      THEN userMap[entry.userId]
                      ELSE DefaultNames[entry.userId]]
              ELSE entry)
  /\ UNCHANGED <<userMap, file>>
  /\ SaveStarted
  /\ UNCHANGED <<sendVars, recvVars, codecVars, clientVars, udpVars, flushVars,
                 linkVars, sideVars>>

\* setUserMapping(userId, username)
SetUserMapping(u, name) ==
  /\ ~(u \in DOMAIN userMap /\ userMap[u] = name)
  /\ userMap' = [x \in DOMAIN userMap \cup {u} |->
                   IF x = u THEN name ELSE userMap[x]]
  /\ UNCHANGED <<transcriptions, saves, saveCount, storeCalls, file>>
  /\ UNCHANGED <<sendVars, recvVars, codecVars, clientVars, udpVars, flushVars,
                 linkVars, sideVars>>

\* clear()
Clear ==
  /\ storeCalls < MaxStoreCalls
  /\ storeCalls' = storeCalls + 1
  /\ transcriptions' = <<>>
  /\ userMap' = << >>
  /\ UNCHANGED <<saves, saveCount, file>>
  /\ UNCHANGED <<sendVars, recvVars, codecVars, clientVars, udpVars, flushVars,
                 linkVars, sideVars>>

\* fs.writeFile of save sv opens the file with flag 'w': it is truncated
WriteFileOpen(sv) ==
  /\ sv \in saves
  /\ ~sv.opened
  /\ saves' = (saves \ {sv}) \cup {[sv EXCEPT !.opened = TRUE]}
  /\ file' = [transcriptions |-> <<>>, size |-> 0, torn |-> TRUE,
              exists |-> TRUE]
  /\ UNCHANGED <<transcriptions, userMap, saveCount, storeCalls>>
  /\ UNCHANGED <<sendVars, recvVars, codecVars, clientVars, udpVars, flushVars,
                 linkVars, sideVars>>

\* fs.writeFile of save sv writes its data from offset 0 and resolves: over
\* a longer text that another writeFile left, the end of that text stays
WriteFileDone(sv) ==
  /\ sv \in saves
  /\ sv.opened
  /\ saves' = saves \ {sv}
  /\ file' = IF file.size > SnapshotSize(sv.snap)
             THEN [file EXCEPT !.torn = TRUE]
             ELSE [transcriptions |-> sv.snap.transcriptions,
                   size |-> SnapshotSize(sv.snap), torn |-> FALSE,
                   exists |-> TRUE]
  /\ UNCHANGED <<transcriptions, userMap, saveCount, storeCalls>>
  /\ UNCHANGED <<sendVars, recvVars, codecVars, clientVars, udpVars, flushVars,
                 linkVars, sideVars>>

\* fs.writeFile of save sv rejects: save() logs the error and returns
WriteFileFails(sv) ==
  /\ sv \in saves
  /\ saves' = saves \ {sv}
  /\ UNCHANGED <<transcriptions, userMap, saveCount, storeCalls, file>>
  /\ UNCHANGED <<sendVars, recvVars, codecVars, clientVars, udpVars, flushVars,
                 linkVars, sideVars>>

----------------------------------------------------------------------------
\* after construction: no session, a fresh encoder, no frame under way
Init ==
  /\ InitSend
  /\ InitRecv
  /\ InitEnc
  /\ frame = NoFrame
  /\ InitPacket
  /\ InitClient
  /\ InitUdp
  /\ InitFlush
  /\ InitStore
  /\ InitLink
  /\ InitSide

----------------------------------------------------------------------------
Next ==
  \/ WorkerStep
  \/ \E offer \in ModeOffers : VoiceReady(offer)
  \/ IPDiscoveryResponse
  \/ \E k \in Keys : SessionDescription(k)
  \/ PacerWake
  \/ \E c \in CallIds : PlayAudio(c)
  \/ \E c \in CallIds, len \in PcmLens : ConvertDone(c, len)
  \/ WorkerMessage
  \/ \E keepReplies \in BOOLEAN : Disconnect(keepReplies)

Spec == Init /\ [][Next]_vars

\* the receive side of a session, from op 2 to disconnect
NextRecv ==
  \/ \E offer \in ModeOffers : VoiceReady(offer)
  \/ IPDiscoveryResponse
  \/ \E u \in UserIds, len \in ChunkLens : AddAudioChunk(u, len)
  \/ \E u \in UserIds : SilenceTimeout(u)
  \/ \E enabled \in BOOLEAN : SetTranscriptionEnabled(enabled)
  \/ \E keepReplies \in BOOLEAN : Disconnect(keepReplies)

SpecRecv == Init /\ [][NextRecv]_vars

\* the buffer manager of a session: addAudioChunk, the silence timeouts,
\* forceFlushAll() and cleanup()
NextFlush ==
  \/ \E offer \in ModeOffers : VoiceReady(offer)
  \/ IPDiscoveryResponse
  \/ \E u \in UserIds, len \in ChunkLens : AddAudioChunk(u, len)
  \/ \E u \in UserIds : SilenceTimeout(u)
  \/ ForceFlushAll
  \/ \E keepReplies \in BOOLEAN : Disconnect(keepReplies)

SpecFlush == Init /\ [][NextFlush]_vars

\* one EncryptedAudioEncoder asked for packet after packet
NextEnc == CreateAudioPacket

SpecEnc == Init /\ [][NextEnc]_vars

\* one frame, drawn from Frames, encoded, carried and decoded
InitFrames ==
  /\ InitSend
  /\ InitRecv
  /\ InitEnc
  /\ frame \in Frames
  /\ InitPacket
  /\ InitClient
  /\ InitUdp
  /\ InitFlush
  /\ InitStore
  /\ InitLink
  /\ InitSide

NextCrypto ==
  \/ EncodeFrame
  \/ \E t \in TailSequences : RewriteTail(t)
  \/ DecodeFrame
  \/ DecodeFrameEarlier

SpecCrypto == InitFrames /\ [][NextCrypto]_vars

\* the client's voice sessions: calls, gateway dispatches, voice websockets
NextClient ==
  \/ \E g \in Guilds, ch \in Channels : JoinVoiceChannel(g, ch)
  \/ \E g \in Guilds : LeaveVoiceChannel(g)
  \/ \E d \in pendingDispatch : HandleVoiceStateUpdate(d)
  \/ \E d \in pendingDispatch : HandleVoiceServerUpdate(d)
  \/ \E i \in 1..Len(voiceSockets) : VoiceWsOpen(i)
  \/ \E i \in 1..Len(voiceSockets) : VoiceHello(i)
  \/ \E i \in 1..Len(voiceSockets) : VoiceReadyMessage(i)
  \/ \E i \in 1..Len(voiceSockets) : VoiceWsClose(i)
  \/ ClientCleanup
  \/ GatewayConnect

SpecClient == Init /\ [][NextClient]_vars

\* the gateway client and the gateway's reconnect opcodes
NextGateway ==
  \/ \E g \in Guilds, ch \in Channels : JoinVoiceChannel(g, ch)
  \/ \E g \in Guilds : LeaveVoiceChannel(g)
  \/ \E d \in pendingDispatch : HandleVoiceStateUpdate(d)
  \/ \E d \in pendingDispatch : HandleVoiceServerUpdate(d)
  \/ \E i \in 1..Len(voiceSockets) : VoiceWsOpen(i)
  \/ \E i \in 1..Len(voiceSockets) : VoiceHello(i)
  \/ \E i \in 1..Len(voiceSockets) : VoiceReadyMessage(i)
  \/ \E i \in 1..Len(voiceSockets) : VoiceWsClose(i)
  \/ GatewayConnect
  \/ \E op \in {7, 9}, d \in BOOLEAN : GatewayOpcode(op, d)

SpecGateway == Init /\ [][NextGateway]_vars

\* the gateway client and the voice heartbeat
NextHeartbeat ==
  \/ \E g \in Guilds, ch \in Channels : JoinVoiceChannel(g, ch)
  \/ \E g \in Guilds : LeaveVoiceChannel(g)
  \/ \E d \in pendingDispatch : HandleVoiceStateUpdate(d)
  \/ \E d \in pendingDispatch : HandleVoiceServerUpdate(d)
  \/ \E i \in 1..Len(voiceSockets) : VoiceWsOpen(i)
  \/ \E i \in 1..Len(voiceSockets) : VoiceHello(i)
  \/ \E i \in 1..Len(voiceSockets) : VoiceReadyMessage(i)
  \/ \E i \in 1..Len(voiceSockets) : VoiceWsClose(i)
  \/ VoiceHeartbeat
  \/ \E i \in 1..Len(voiceSockets) : VoiceHeartbeatAck(i)

SpecHeartbeat == Init /\ [][NextHeartbeat]_vars

\* the gateway client and voice op 5
NextSpeaking ==
  \/ \E g \in Guilds, ch \in Channels : JoinVoiceChannel(g, ch)
  \/ \E g \in Guilds : LeaveVoiceChannel(g)
  \/ \E d \in pendingDispatch : HandleVoiceStateUpdate(d)
  \/ \E d \in pendingDispatch : HandleVoiceServerUpdate(d)
  \/ \E i \in 1..Len(voiceSockets) : VoiceWsOpen(i)
  \/ \E i \in 1..Len(voiceSockets) : VoiceHello(i)
  \/ \E i \in 1..Len(voiceSockets) : VoiceReadyMessage(i)
  \/ \E i \in 1..Len(voiceSockets) : VoiceWsClose(i)
  \/ \E i \in 1..Len(voiceSockets), u \in UserIds :
       VoiceSpeaking(i, PeerSsrc, u)

SpecSpeaking == Init /\ [][NextSpeaking]_vars

\* the transcript store and its file
NextStore ==
  \/ Initialize
  \/ \E entry \in Entries : AddTranscription(entry)
  \/ \E u \in UserIds, name \in Usernames : SetUserMapping(u, name)
  \/ Clear
  \/ \E sv \in saves : WriteFileOpen(sv)
  \/ \E sv \in saves : WriteFileDone(sv)
  \/ \E sv \in saves : WriteFileFails(sv)

SpecStore == Init /\ [][NextStore]_vars

\* An Active session that has played FramesPlayed frames in earlier calls,
\* all sent: the key is set, the worker initialised, the pacer at rest, and
\* sequence, timestamp and frame ids stand where those frames left them.
\* wire, wireSpeaking and wsSent record what is sent from here on.
InitWrap ==
  /\ webrtcHandler = "live"
  /\ voiceWebsocket = "open"
  /\ udpSocket = "open"
  /\ ipDiscovery = "done"
  /\ mode \in {LiteMode, PlainMode}
  /\ secretKey \in Keys
  /\ op4Count = 1
  /\ encodingWorker = "alive"
  /\ workerEnc = [init |-> TRUE, key |-> secretKey, mode |-> mode]
  /\ workerReady = TRUE
  /\ workerInbox = <<>>
  /\ workerOutbox = <<>>
  /\ pendingFrames = {}
  /\ frameIdCounter = FramesPlayed
  /\ sequence = FramesPlayed
  /\ timestamp = FramesPlayed * SamplesPerFrame
  /\ speaking = FALSE
  /\ isSending = FALSE
  /\ sendQueue = <<>>
  /\ frameIndex = 1
  /\ pacerTimer = FALSE
  /\ pacerFault = FALSE
  /\ calls = [c \in CallIds |-> IdleCall]
  /\ wire = <<>>
  /\ wireSpeaking = <<>>
  /\ wsSent = <<>>
  /\ audioBufferManager = "alive"
  /\ transcriptionEnabled = TRUE
  /\ buffers = << >>
  /\ timers = {}
  /\ emitted = <<>>
  /\ chunkCount = 0
  /\ InitEnc
  /\ frame = NoFrame
  /\ InitPacket
  /\ InitClient
  /\ InitUdp
  /\ InitFlush
  /\ InitStore
  /\ InitLink
  /\ InitSide

\* the send path of that session, to its disconnect
NextWrap ==
  \/ WorkerStep
  \/ \E k \in Keys : SessionDescription(k)
  \/ PacerWake
  \/ \E c \in CallIds : PlayAudio(c)
  \/ \E c \in CallIds, len \in PcmLens : ConvertDone(c, len)
  \/ WorkerMessage
  \/ \E keepReplies \in BOOLEAN : Disconnect(keepReplies)

SpecWrap == InitWrap /\ [][NextWrap]_vars

\* the receive path of a session: datagrams, the decoding worker, op 5 and
\* the silence timeouts
NextUdp ==
  \/ \E offer \in ModeOffers : VoiceReady(offer)
  \/ IPDiscoveryResponse
  \/ \E k \in Keys : SessionDescription(k)
  \/ WorkerStep
  \/ WorkerMessage
  \/ DecoderInitialize
  \/ \E d \in Datagrams : UdpMessage(d)
  \/ \E opusOk \in BOOLEAN : DecodingWorkerStep(opusOk)
  \/ DecodedMessage
  \/ \E u \in UserIds : SpeakingEvent(PeerSsrc, u)
  \/ \E u \in DOMAIN buffers : SilenceTimeout(u)

SpecUdp == Init /\ [][NextUdp]_vars

\* an established session in the lite mode: op 4 handled, both workers
\* initialised with the session key, transcription on, nothing received yet
InitRxLoop ==
  /\ webrtcHandler = "live"
  /\ voiceWebsocket = "open"
  /\ udpSocket = "open"
  /\ ipDiscovery = "done"
  /\ mode = LiteMode
  /\ secretKey \in Keys
  /\ op4Count = 1
  /\ encodingWorker = "alive"
  /\ workerEnc = [init |-> TRUE, key |-> secretKey, mode |-> mode]
  /\ workerReady = TRUE
  /\ workerInbox = <<>>
  /\ workerOutbox = <<>>
  /\ pendingFrames = {}
  /\ frameIdCounter = 0
  /\ sequence = 0
  /\ timestamp = 0
  /\ speaking = FALSE
  /\ isSending = FALSE
  /\ sendQueue = <<>>
  /\ frameIndex = 1
  /\ pacerTimer = FALSE
  /\ pacerFault = FALSE
  /\ calls = [c \in CallIds |-> IdleCall]
  /\ wire = <<>>
  /\ wireSpeaking = <<>>
  /\ wsSent = <<>>
  /\ audioBufferManager = "alive"
  /\ transcriptionEnabled = TRUE
  /\ buffers = << >>
  /\ timers = {}
  /\ emitted = <<>>
  /\ chunkCount = 0
  /\ InitEnc
  /\ frame = NoFrame
  /\ InitPacket
  /\ InitClient
  /\ decodingWorker = [init |-> TRUE, key |-> secretKey, mode |-> mode]
  /\ decInbox = <<>>
  /\ decInits = 1
  /\ ssrcUserMap = << >>
  /\ datagram = NoDatagram
  /\ decodeReply = NoReply
  /\ rxCount = 0
  /\ lastRx = NoRx
  /\ chunkSsrc = << >>
  /\ InitFlush
  /\ InitStore
  /\ InitLink
  /\ InitSide

\* the receive loop of that session
NextRxLoop ==
  \/ \E d \in Datagrams : UdpReceive(d, MaxLoopDatagrams)
  \/ \E opusOk \in BOOLEAN : DecodingWorkerStep(opusOk)
  \/ DecodedMessage
  \/ \E u \in UserIds : SpeakingEvent(PeerSsrc, u)
  \/ \E u \in DOMAIN buffers : SilenceTimeout(u)

SpecRxLoop == InitRxLoop /\ [][NextRxLoop]_vars

\* IP discovery with whatever datagram arrives first, then the receive path
NextDiscovery ==
  \/ \E offer \in ModeOffers : VoiceReady(offer)
  \/ \E d \in Datagrams : DiscoveryMessage(d)
  \/ \E d \in Datagrams : UdpMessage(d)
  \/ \E opusOk \in BOOLEAN : DecodingWorkerStep(opusOk)
  \/ DecodedMessage

SpecDiscovery == Init /\ [][NextDiscovery]_vars

----------------------------------------------------------------------------
(* Properties of the send path *)

\* (x mod 2^32) for 0 <= x < 2^33; timestamps of the model stay below 2^31
U32(x) == IF x \div U16Limit >= U16Limit THEN x - U16Limit * U16Limit ELSE x

\* A PlayAudio call that is suspended can still be resumed: ffmpeg is
\* running, or the awaited frame has a resolver and its request or reply is
\* on its way.
CallCanResume(c) ==
  \/ calls[c].pc = "convert"
  \/ /\ calls[c].pc = "await"
     /\ calls[c].fid \in pendingFrames
     /\ \/ \E k \in 1..Len(workerInbox) : workerInbox[k].id = calls[c].fid
        \/ \E k \in 1..Len(workerOutbox) : workerOutbox[k].id = calls[c].fid

\* the awaited encodeFrame of call c was answered with an error
Orphaned(c) == calls[c].pc = "await" /\ calls[c].fid \notin pendingFrames

\* C1: no RTP frame is on the wire unless op 4 has been received and the
\* encoding worker holds the session key.
C1_NoAudioBeforeActive ==
  wire # <<>> =>
    /\ op4Count > 0 /\ secretKey # NoKey
    /\ workerEnc.init
    /\ \A k \in 1..Len(wire) : wire[k].sealed => wire[k].key \in Keys

\* C1 witness: a PlayAudio call made between op 2 and op 4 sent nothing and
\* is left behind, and a later call's frames went out after op 4.
C1_Witness ==
  /\ \E c \in CallIds : Orphaned(c) /\ calls[c].i = 0
  /\ wire # <<>>
  /\ secretKey # NoKey

\* C2: frames leave in PCM order and calls do not mix: each frame on the wire
\* is followed by the next frame of its call, or it is the last frame of its
\* call and is followed by the first frame of another call.
C2_CallsNotInterleaved ==
  \A k \in 1..(Len(wire) - 1) :
    \/ wire[k + 1].call = wire[k].call /\ wire[k + 1].idx = wire[k].idx + 1
    \/ /\ wire[k + 1].call # wire[k].call
       /\ wire[k + 1].idx = 0
       /\ wire[k].idx = calls[wire[k].call].n - 1

\* C3: consecutive frames on the wire step the sequence by 1 mod 2^16 and the
\* timestamp by 960 mod 2^32.
C3_SequenceTimestampStep ==
  \A k \in 1..(Len(wire) - 1) :
    /\ wire[k + 1].seq = (wire[k].seq + 1) % U16Limit
    /\ wire[k + 1].ts = U32(wire[k].ts + SamplesPerFrame)

\* a playback is in flight: the pacer loop runs and its next wake-up, which
\* sends the next frame or closes the playback, is armed
PlaybackInFlight == isSending /\ pacerTimer

\* the frames the pacer holds are those of a PlayAudio call that returned ok
QueueOfReturnedCall ==
  \E c \in CallIds :
    calls[c].pc = "done" /\ calls[c].n > 0 /\ sendQueue = calls[c].frames

\* C6: every frame is sent with the speaking flag at 1, and at all other
\* times the flag is 0: while the pacer holds the frames of a call that
\* returned ok the flag is 1 only as long as that playback is in flight, and
\* with no playback in flight it is 0.
C6_SpeakingExactlyDuringPlayback ==
  /\ \A k \in 1..Len(wireSpeaking) : wireSpeaking[k]
  /\ PlaybackInFlight => speaking
  /\ (speaking /\ QueueOfReturnedCall) => PlaybackInFlight

\* C7: a PlayAudio call made before op 4 that has not returned can still be
\* resumed while the session lasts; none is left waiting for an answer that
\* cannot come.
C7_NoCallPendingForever ==
  \A c \in CallIds :
    (/\ calls[c].early
     /\ calls[c].pc \in {"convert", "await"}
     /\ webrtcHandler = "live") => CallCanResume(c)

\* C8: no pacer wake-up finds frames left to send on a socket that
\* disconnect() has closed.
C8_PacerStoppedOnLeave == ~pacerFault

\* C9: once no frame remains to be sent (no pacer wake-up is armed), the
\* speaking flag is 0.
C9_SpeakingClearedAtEnd == ~pacerTimer => ~speaking

----------------------------------------------------------------------------
(* Properties of the per-speaker buffer *)

RECURSIVE ChunkIds(_)
ChunkIds(chunks) ==
  IF chunks = <<>> THEN {} ELSE {Head(chunks).id} \cup ChunkIds(Tail(chunks))

BufferedIds == UNION {ChunkIds(buffers[u]) : u \in DOMAIN buffers}
EmittedIds == UNION {ChunkIds(emitted[k].chunks) : k \in 1..Len(emitted)}

\* C10: no buffered audio is dropped: every chunk handed to the buffer is
\* still buffered or was emitted in an utterance, also after disconnect.
C10_DisconnectFlushesAll ==
  \A id \in 1..chunkCount : id \in BufferedIds \cup EmittedIds

----------------------------------------------------------------------------
(* Properties of sealing and opening *)

\* C4: no send nonce is used twice within one session; in particular no
\* later packet is sealed under the nonce of the session's first packet.
C4_NonceNeverReused == encCount >= 2 => encLastNonce # encFirstNonce

\* C5: sealing a payload under SendNonce(s) and opening the packet with the
\* receive nonce under the same key gives the payload back if and only if
\* the packet's trailer is BE32(s); so every packet of the encoding worker
\* is opened by the decoding worker.
C5_SealOpenRoundTrip ==
  (frame.mode = LiteMode /\ decoded.state # "pending") =>
    ((decoded.state = "opened" /\ decoded.opusData = frame.opusData)
       <=> packet.tail = BE32(frame.sequence))

\* the earlier decoding worker opens with the nonce the encoder sealed with
EarlierDecoderRoundTrip ==
  (frame.mode = LiteMode /\ decodedEarlier.state # "pending") =>
    ((decodedEarlier.state = "opened"
        /\ decodedEarlier.opusData = frame.opusData)
       <=> packet.tail = BE32(frame.sequence))


----------------------------------------------------------------------------
(* The client's voice sessions *)

\* the dispatches of request r that the client has handled
ReceivedOf(r) == {x.t : x \in {y \in received : y.req = r}}

\* C11: at the moment leaveVoiceChannel returns, no UDP socket and no voice
\* websocket of the session is open and the voice heartbeat timer is
\* cancelled
C11_LeaveClosesSession ==
  [][(clientCalls' = clientCalls + 1 /\ lastCall'.op = "leave"
        /\ lastCall'.result = "ok") =>
       /\ LiveSockets' = {}
       /\ OpenUdpSockets' = {}
       /\ ~voiceHeartbeatInterval']_vars

\* C12: at most one voice session is live: never two voice websockets
\* connecting or open, never two UDP sockets open
C12_AtMostOneLiveSession ==
  /\ Cardinality(LiveSockets) <= 1
  /\ Cardinality(OpenUdpSockets) <= 1

\* C13: once both VOICE_STATE_UPDATE and VOICE_SERVER_UPDATE of a join
\* have been handled, the voice websocket of that join has been created,
\* whichever of the two came first
C13_BothDispatchesOpenVoiceWs ==
  \A r \in 1..clientCalls :
    ReceivedOf(r) = {"VOICE_STATE_UPDATE", "VOICE_SERVER_UPDATE"} =>
      \E i \in 1..Len(voiceSockets) : voiceSockets[i].req = r

\* C14: joinVoiceChannel reports success only when the handshake of that
\* join is complete: both dispatches handled and the voice websocket Ready
C14_JoinSucceedsOnlyAfterHandshake ==
  (lastCall.op = "join" /\ lastCall.result = "ok") =>
    /\ ReceivedOf(clientCalls) = {"VOICE_STATE_UPDATE", "VOICE_SERVER_UPDATE"}
    /\ \E i \in 1..Len(voiceSockets) :
         voiceSockets[i].req = clientCalls /\ voiceSockets[i].ready


----------------------------------------------------------------------------
(* Properties of the receive path *)

\* C15: a 74-byte datagram that starts with 0x0001 yields no decoded PCM
\* and adds no chunk to any per-speaker buffer
C15_DiscoveryNeverAudio ==
  lastRx.datagram.kind = "discovery" =>
    /\ lastRx.reply.type # "decoded"
    /\ lastRx.userId = "none"

\* C16: a packet whose plaintext is at most 3 bytes long yields 3840 bytes
\* of silence and the Opus decoder is not called for it
C16_ShortPlaintextIsSilence ==
  (lastRx.reply.type = "decoded" /\ Len(lastRx.reply.plain) <= 3) =>
    /\ lastRx.reply.pcmLen = FrameSize
    /\ lastRx.reply.silence
    /\ ~lastRx.reply.invoked

\* C17: stripping the extensions of a payload P that was put behind a
\* 0xBEDE header gives back exactly P
C17_StripAfterAppendIsIdentity ==
  (/\ lastRx.reply.type = "decoded"
   /\ lastRx.datagram.framed
   /\ lastRx.reply.plain =
        Append0xBEDEHeader(lastRx.datagram.opus, lastRx.datagram.ext)) =>
    lastRx.reply.clean = lastRx.datagram.opus

\* C20: an utterance is emitted under the real user id whenever the ssrc
\* of its chunks is bound by an op 5 at the time it is emitted, also for
\* chunks that were buffered before the op 5
C20_LateBindingReparents ==
  [][\A k \in (Len(emitted) + 1)..Len(emitted') :
       \A c \in ChunkIds(emitted'[k].chunks) :
         (c \in DOMAIN chunkSsrc' /\ chunkSsrc'[c] \in DOMAIN ssrcUserMap') =>
           emitted'[k].userId = ssrcUserMap'[chunkSsrc'[c]]]_vars


----------------------------------------------------------------------------
(* Properties of flushBuffer *)

\* C18: flushBuffer on a buffer that is empty emits no utterance for that
\* user and leaves that user's buffer and timer as they were
C18_FlushOfEmptyBufferIsNoOp ==
  [][forceFlushes' # forceFlushes =>
       \A u \in lastFlush'.empty :
         /\ \A k \in (Len(emitted) + 1)..Len(emitted') : emitted'[k].userId # u
         /\ u \in DOMAIN buffers' /\ buffers'[u] = buffers[u]
         /\ (u \in timers') = (u \in timers)]_vars

\* a forceFlushAll() that met an empty buffer, with another user's chunks
\* still buffered before it
C18_Witness ==
  /\ lastFlush.empty # {}
  /\ lastFlush.users # lastFlush.empty


----------------------------------------------------------------------------
(* Properties of the sequence wrap *)

\* C19: with the send sequence at 0xFFFF and beyond, every frame is encoded
\* (no 'error' reply from the initialised worker), goes out with a 16-bit
\* sequence and its nonce tail, and no call of a live session is left
\* awaiting a frame whose resolver is gone
C19_SequenceWrapContinues ==
  /\ \A k \in 1..Len(workerOutbox) : workerOutbox[k].type # "error"
  /\ \A k \in 1..Len(wire) :
       /\ wire[k].seq < U16Limit
       /\ wire[k].sealed => wire[k].tail = wire[k].seq
  /\ webrtcHandler = "live" => \A c \in CallIds : ~Orphaned(c)


----------------------------------------------------------------------------
(* Properties of the transcript store *)

IsPrefix(a, b) == Len(a) <= Len(b) /\ SubSeq(b, 1, Len(a)) = a

\* C21: the store is append-only: every store operation leaves the entries
\* already appended in place and in order
C21_StoreIsAppendOnly ==
  [][IsPrefix(transcriptions, transcriptions')]_vars

\* C22: the file is never torn, and once no write is under way its
\* transcription list is the in-memory list
C22_FileMirrorsMemory ==
  /\ ~file.torn
  /\ (saves = {} /\ saveCount > 0) => file.transcriptions = transcriptions


----------------------------------------------------------------------------
(* Properties of the gateway client, continued *)

\* a join is in effect: the client has asked the gateway for a channel
JoinRequested ==
  \E i \in DOMAIN gatewaySent :
    gatewaySent[i].op = 4 /\ gatewaySent[i].channel_id # "null"

\* C23: leaveVoiceChannel called while no join is in effect fails, sends
\* nothing to the gateway and changes nothing of the client's voice state
C23_LeaveWithoutJoinIsRefused ==
  [][(clientCalls' = clientCalls + 1 /\ lastCall'.op = "leave"
        /\ ~JoinRequested) =>
       /\ lastCall'.result = "error"
       /\ gatewaySent' = gatewaySent
       /\ pendingDispatch' = pendingDispatch
       /\ voiceStates' = voiceStates]_vars


----------------------------------------------------------------------------
(* Properties of the voice session, continued *)

\* C24: once op 4 has set the session key, neither the handler's key nor
\* the key of an initialised encoding or decoding worker changes for the
\* rest of the session
C24_SessionKeySealed ==
  [][/\ secretKey # NoKey => secretKey' = secretKey
     /\ workerEnc.init => workerEnc'.key = workerEnc.key
     /\ decodingWorker.init => decodingWorker'.key = decodingWorker.key]_vars


\* the client holds no voice session: no handler, no live voice websocket,
\* no voice heartbeat timer
ClientSessionClean ==
  /\ clientHandler = "undefined"
  /\ clientVoiceWs # 0 =>
       voiceSockets[clientVoiceWs].state \notin {"connecting", "open"}
  /\ ~voiceHeartbeatInterval

\* C25: when the client starts a new gateway connection after gateway op 7
\* or op 9, resumable or not, its voice session has been cleaned up
C25_ReconnectCleansVoiceSession ==
  [][(connectStarted' # connectStarted /\ connectStarted'.op \in {7, 9}) =>
       ClientSessionClean']_vars

\* C26: once the voice heartbeat has gone two whole intervals without an
\* ACK, the websocket it beats on is no longer live
C26_HeartbeatMissClosesSession ==
  (voiceHeartbeatInterval /\ heartbeat.sent - heartbeat.acked > 2) =>
    voiceSockets[heartbeat.ws].state \notin {"connecting", "open"}

\* C27: every voice op 5 that carries a user id and an ssrc binds the ssrc
\* to that user, whether or not op 2 has been handled
C27_SpeakingAlwaysBinds ==
  [][lastSpeaking' # lastSpeaking =>
       /\ lastSpeaking'.ssrc \in DOMAIN ssrcUserMap'
       /\ ssrcUserMap'[lastSpeaking'.ssrc] = lastSpeaking'.user_id]_vars


----------------------------------------------------------------------------
(* Properties of the receive path, continued *)

\* C28: a datagram of less than 12 bytes, or one whose RTP version is not
\* 2, is neither opened nor decoded and adds no chunk to any buffer
C28_MalformedDatagramRejected ==
  (/\ lastRx.datagram.kind \in {"short", "rtp"}
   /\ (DatagramLength(lastRx.datagram) < 12
         \/ RtpVersion(lastRx.datagram) # 2)) =>
    /\ lastRx.reply.type # "decoded"
    /\ ~lastRx.reply.opened
    /\ lastRx.userId = "none"

\* the main thread handles the worker's reply to the datagram in hand
ReplyHandled == decodeReply.type # "none" /\ decodeReply' = NoReply

\* C29: a datagram whose open returns null adds nothing to any buffer, is
\* answered by an error reply that is only logged, and leaves the listener
\* free; the datagram taken after it is decoded and buffered as usual
C29_FailedOpenIsDropped ==
  [][ReplyHandled =>
       /\ OpenFails(decodingWorker, datagram) =>
            /\ buffers' = buffers
            /\ timers' = timers
            /\ emitted' = emitted
            /\ chunkCount' = chunkCount
            /\ lastRx'.reply.type = "error"
            /\ lastRx'.userId = "none"
            /\ datagram' = NoDatagram
       /\ (/\ lastRx.datagram # NoDatagram
           /\ OpenFails(decodingWorker, lastRx.datagram)
           /\ DatagramLength(datagram) >= 16
           /\ ~OpenFails(decodingWorker, datagram)
           /\ transcriptionEnabled
           /\ audioBufferManager = "alive") =>
            /\ decodeReply.type = "decoded"
            /\ chunkCount' = chunkCount + 1
            /\ lastRx'.userId # "none"]_vars

\* a failed open has been handled and the worker has decoded the datagram
\* taken after it
C29_Witness ==
  /\ lastRx.reply.type = "error"
  /\ OpenFails(decodingWorker, lastRx.datagram)
  /\ datagram # NoDatagram
  /\ ~OpenFails(decodingWorker, datagram)
  /\ decodeReply.type = "decoded"

\* C30: in the lite mode every datagram that yields PCM was opened, and
\* what the decoder is given does not change with the sequence and the
\* timestamp on the wire: a datagram with the same payload under the same
\* key that opens yields the same
C30_SilenceOnlyAfterOpen ==
  (lastRx.reply.type = "decoded" /\ lastRx.reply.lite) =>
    /\ lastRx.reply.opened
    /\ LET w == [init |-> TRUE, key |-> lastRx.datagram.box.key,
                 mode |-> LiteMode]
       IN \A d \in SealedDatagrams :
            (/\ d.box.msg = lastRx.datagram.box.msg
             /\ d.box.key = lastRx.datagram.box.key
             /\ Opens(w, d)) =>
              DecodeResult(w, d, TRUE).clean = lastRx.reply.clean


----------------------------------------------------------------------------
(* Properties of the per-speaker buffer, continued *)

\* maxBufferSizeMs of PCM, in bytes
MaxBufferBytes == MaxBufferSizeMs * (BytesPerSecond \div 1000)

\* C32: no emitted utterance holds more than 10 s of PCM: the chunk that
\* would take a buffer past 10 s is not part of the utterance flushed
C32_NoUtteranceOverCap ==
  \A k \in 1..Len(emitted) : emitted[k].bytes <= MaxBufferBytes

----------------------------------------------------------------------------
(* Properties of IP discovery *)

\* C34: the address and port of Select Protocol come from a datagram that
\* is an IP discovery response: 74 bytes or more, first two bytes 0x0001
C34_SelectOnlyFromResponse ==
  selected # NoSelection => (selected.length >= 74 /\ selected.type = 1)


----------------------------------------------------------------------------
(* Properties of the receive path before op 4 *)

\* C35: a chunk is added to a speaker's buffer only once op 4 has set the
\* session key and the decoding worker has been initialised
C35_NoAudioBeforeKey ==
  [][chunkCount' # chunkCount =>
       (secretKey # NoKey /\ decodingWorker.init)]_vars


\* C37: the close event of a voice websocket older than the one the handler
\* is connected through leaves the handler, its UDP socket and its websocket
\* as they are
C37_StaleCloseIsHarmless ==
  [][\A i \in 1..Len(voiceSockets) :
       (VoiceWsClose(i) /\ i < handlerWs) =>
         /\ clientHandler' = clientHandler
         /\ udpSockets' = udpSockets
         /\ voiceSockets'[handlerWs] = voiceSockets[handlerWs]]_vars


\* C38: while a send loop is running and frames of its queue are still to be
\* sent, no step replaces the queue with another one
C38_RunningQueueIsKept ==
  [][(isSending /\ pacerTimer /\ frameIndex < Len(sendQueue) /\ isSending')
       => sendQueue' = sendQueue]_vars


----------------------------------------------------------------------------
(* Settling of encodeFrame requests *)

\* the send path with the worker thread and the main thread's message
\* handler scheduled fairly: a posted message is eventually taken
NextSettle ==
  \/ WorkerStep
  \/ \E offer \in ModeOffers : VoiceReady(offer)
  \/ IPDiscoveryResponse
  \/ \E k \in Keys : SessionDescription(k)
  \/ PacerWake
  \/ \E c \in CallIds : PlayAudio(c)
  \/ \E c \in CallIds, len \in PcmLens : ConvertDone(c, len)
  \/ WorkerMessage

SpecSettle ==
  /\ Init
  /\ [][NextSettle]_vars
  /\ WF_vars(WorkerStep)
  /\ WF_vars(WorkerMessage)

\* C36: every encodeFrame request a playAudio call awaits eventually
\* settles, so the call leaves its await
C36_EveryEncodeSettles ==
  \A c \in CallIds : (calls[c].pc = "await") ~> (calls[c].pc # "await")


----------------------------------------------------------------------------
(* Properties of the session manager *)

NextManager ==
  \/ \E id \in SessionIds : CreateSession(id)
  \/ \E id \in SessionIds : RemoveSession(id)
  \/ \E reenters \in BOOLEAN : RemoveSessionStep(reenters)

SpecManager == Init /\ [][NextManager]_vars

\* C40: removeSession closes a session's transport at most once
C40_TransportClosedOnce ==
  \A id \in DOMAIN closes : closes[id] <= 1


----------------------------------------------------------------------------
(* Properties of the placeholder identity *)

\* C33: while no SSRC is bound, two buffered chunks are in the same
\* speaker's buffer exactly when their datagrams carried the same SSRC
C33_PlaceholderBySsrc ==
  ssrcUserMap = << >> =>
    \A u, v \in DOMAIN buffers :
      \A i \in 1..Len(buffers[u]), j \in 1..Len(buffers[v]) :
        (chunkSsrc[buffers[u][i].id] = chunkSsrc[buffers[v][j].id])
          <=> (u = v)


----------------------------------------------------------------------------
(* Properties of the buffer manager on the clock *)

NextClock ==
  \/ \E offer \in ModeOffers : VoiceReady(offer)
  \/ IPDiscoveryResponse
  \/ \E u \in UserIds : ClockChunk(u, FrameSize)
  \/ \E u \in UserIds : ClockTimeout(u)
  \/ Tick

SpecClock == Init /\ [][NextClock]_vars

\* C31: no chunk stays buffered for more than the hard cap of 10 s after the
\* first chunk of its utterance was added
C31_FlushedWithinCap ==
  \A u \in DOMAIN buffers :
    buffers[u] # <<>> => now - firstAt[u] <= CapTicks

====
